---------------------------- MODULE Spec2Model ----------------------------
(***************************************************************************)
(* Model of the interface-status observer of wg_dart                       *)
(* (src/windows/network_adapter_status_observer.cpp): the monitored set,   *)
(* the global OS notification subscription, the mutex guarding them, the   *)
(* sink, and the threads that run StartObserving, StopObserving,           *)
(* StopAllObserving and the OS callback, one step per place where another  *)
(* thread can observe or influence the outcome.                            *)
(***************************************************************************)
EXTENDS Naturals, Integers, Sequences, FiniteSets, TLC

\* ------------------------------------------------------------------ bounds
MaxThreads == 2
MaxLuid == 2

MaxNames == 1
MaxConfigSize == 1
MaxEntries == 2
MaxLines == 4

Threads == 1..MaxThreads
Luids == 1..MaxLuid
Names == 1..MaxNames

\* ------------------------------------------------- values of the program
NoThread == 0
NullHandle == 0
NullLuid == 0
NoEvent == <<>>
NullLibrary == 0
NoSink == 0
NoConfig == <<>>
WIREGUARD_KEY_LENGTH == 32
ByteModulus == 256
WordModulus == 65536
SizeofInterface == 80
SizeofPeer == 136
SizeofAllowedIp == 24

\* enum ConnectionStatus { connected, disconnected, connecting,
\*                         disconnecting, unknown }
connected == 0
disconnected == 1
connecting == 2
disconnecting == 3
unknown == 4

ConnectionStatusValues == {connected, disconnected, connecting, disconnecting, unknown}

\* IF_OPER_STATUS values the code switches on, and one it does not name.
OperStatusValues ==
  {"IfOperStatusUp", "IfOperStatusDown", "IfOperStatusTesting",
   "IfOperStatusUnknown", "IfOperStatusDormant", "IfOperStatusNotPresent",
   "IfOperStatusLowerLayerDown", "Unrecognized"}

ConnectionStatusToString(s) ==
  CASE s = connected -> "connected"
    [] s = disconnected -> "disconnected"
    [] s = connecting -> "connecting"
    [] s = disconnecting -> "disconnecting"
    [] OTHER -> "unknown"

ConnectionStatusFromIfOperStatus(operStatus) ==
  CASE operStatus = "IfOperStatusUp" -> connected
    [] operStatus = "IfOperStatusDown" -> disconnected
    [] OTHER -> unknown

\* Variant: the switch of ConnectionStatusFromIfOperStatus in its place.
GetInterfaceStatus_FromIfOperStatus(queryOk, operStatus) ==
  IF ~queryOk THEN ConnectionStatusToString(unknown)
  ELSE ConnectionStatusToString(ConnectionStatusFromIfOperStatus(operStatus))

\* GetIfEntry2 either fails (queryOk = FALSE) or yields the row's OperStatus.
GetInterfaceStatus(queryOk, operStatus) ==
  IF ~queryOk THEN ConnectionStatusToString(unknown)
  ELSE CASE operStatus = "IfOperStatusUp" -> ConnectionStatusToString(connected)
         [] operStatus \in {"IfOperStatusDown", "IfOperStatusDormant",
                            "IfOperStatusNotPresent", "IfOperStatusLowerLayerDown"}
              -> ConnectionStatusToString(disconnected)
         [] OTHER -> ConnectionStatusToString(unknown)

\* GetIfEntry2 finds no row for the luid and returns an error.
NoIfEntry == "NoIfEntry"

\* The statuses a query of the link can return, over every OS answer.
QueriedStatuses ==
  {GetInterfaceStatus(ok, op) : ok \in BOOLEAN, op \in OperStatusValues}

\* The twelve entry points, in the order LoadFunctions resolves them.
EntryPointOrder ==
  <<"WireGuardCreateAdapter", "WireGuardOpenAdapter", "WireGuardCloseAdapter",
    "WireGuardDeleteDriver", "WireGuardGetAdapterLUID",
    "WireGuardGetRunningDriverVersion", "WireGuardSetLogger",
    "WireGuardSetAdapterLogging", "WireGuardSetAdapterState",
    "WireGuardGetAdapterState", "WireGuardSetConfiguration",
    "WireGuardGetConfiguration">>

EntryPoints == {EntryPointOrder[i] : i \in 1..Len(EntryPointOrder)}

\* One library object per holder that can exist at once: each adapter, the
\* plugin's reference, and the object nativeInit is about to assign.
LibraryIds == 1..(MaxNames + 2)

\* The driver returns a new handle for each adapter it creates or opens.
Handles == 1..MaxNames

\* A WireguardLibrary that does not exist: dll_handle_ = nullptr, no owner.
NoLibraryObject == [dll_handle_ |-> FALSE, functions |-> {}, use_count |-> 0]

\* Address families of an entry: the two the configurator installs, and one
\* it skips.  An entry is named by its family: one address per family.
FamilyOrder == <<"AF_INET", "AF_INET6">>
SupportedFamilies == {FamilyOrder[i] : i \in 1..Len(FamilyOrder)}
NetFamilies == SupportedFamilies \cup {"AF_IPX"}

\* The links of the host: the code only compares a row's link with the
\* configurator's, so two links give every case of "own" and "other".
LinkOrder == <<"LinkA", "LinkB">>
NetLinks == {LinkOrder[i] : i \in 1..Len(LinkOrder)}

\* The rows the OS tables can hold: one per link and address.
NetKeys == NetLinks \X SupportedFamilies

\* std::vector<WIREGUARD_ALLOWED_IP> of at most MaxEntries entries.
EntryLists == UNION {[1..n -> NetFamilies] : n \in 0..MaxEntries}

\* ------------------------------------------------------------------- state
VARIABLES
  adapters_mutex_,                 \* NoThread, or the thread holding the lock
  monitored_adapters_,             \* std::vector<NET_LUID>
  notifications_registered_,       \* bool
  interface_notification_handle_,  \* HANDLE, NullHandle = nullptr
  sink_,                           \* TRUE iff an event sink is attached
  os_subscriptions,                \* handles registered with the OS, not cancelled
  pc,                              \* each thread's position
  luid,                            \* each thread's luid argument
  handle_to_cancel,                \* each thread's local copy of the handle
  in_callback,                     \* the subscription whose callback the thread runs
  delivered                        \* the event the sink received in the last step

observerVars ==
  <<adapters_mutex_, monitored_adapters_, notifications_registered_,
    interface_notification_handle_, sink_, os_subscriptions, pc, luid,
    handle_to_cancel, in_callback, delivered>>

\* The host's interface table as GetIfEntry2 reads it, and the answer of the
\* last GetInterfaceStatus call.
VARIABLES
  if_table,                        \* luid -> OperStatus, or NoIfEntry
  last_status                      \* <<luid, status string>>, or NoEvent

statusVars == <<if_table, last_status>>

\* The plugin's library reference and adapters, the library objects with
\* their shared_ptr counts, the driver DLL on disk and in memory, and what the
\* last step called in the driver and returned.
VARIABLES
  plugin_alive,                    \* FALSE once ~WireguardDartPlugin has run
  wg_library_,                     \* std::shared_ptr<WireguardLibrary>
  adapters_,                       \* std::vector<std::unique_ptr<WireguardAdapter>>
  libraries,                       \* the WireguardLibrary objects, by id
  dll_present,                     \* LoadLibraryW(L"wireguard.dll") can succeed
  dll_exports,                     \* the names GetProcAddress resolves
  image_refs,                      \* LoadLibraryW calls not yet matched by FreeLibrary
  handles_issued,                  \* adapter handles the driver has returned
  close_count,                     \* handle -> number of WireGuardCloseAdapter calls
  driver_calls,                    \* the driver calls of the last step, in order
  returned                         \* what the last operation returned

adapterVars ==
  <<plugin_alive, wg_library_, adapters_, libraries, dll_present, dll_exports,
    image_refs, handles_issued, close_count, driver_calls, returned>>

\* The host's unicast address table and forwarding table, and what the last
\* WireguardNetworkConfig operation called and returned.
VARIABLES
  ip_table,                        \* <<luid, family>> -> number of address rows
  route_table,                     \* <<luid, family>> -> number of route rows
  net_calls,                       \* the OS calls made in the last step
  net_returned                     \* what the last operation returned

netVars == <<ip_table, route_table, net_calls, net_returned>>

\* One WireguardConfigParser object, the buffer BuildConfiguration was given,
\* and what its last operation was called with and returned.
VARIABLES
  interface_,                      \* ParsedInterface
  peers_,                          \* std::vector<ParsedPeer>
  buffer,                          \* the blocks written to the buffer, in order
  parser_returned                  \* the last operation, its arguments and result

parserVars == <<interface_, peers_, buffer, parser_returned>>

\* The position of the plugin's thread inside HandleDisconnect, the adapter
\* the handler found, and the steps the handler has performed so far.
VARIABLES
  disconnect_pc,                   \* "idle" outside the handler
  target_adapter,                  \* index into adapters_, 0 = nullptr
  flow                             \* the handler's steps and their results, in order

handlerVars == <<disconnect_pc, target_adapter, flow>>

\* What an interleaving of the observer's operations has done so far, kept
\* only by the specifications that follow one operation across its steps.
VARIABLES
  stopping,                        \* the luid argument of each thread's StopObserving
  stopped,                         \* luids whose StopObserving returned, not started since
  sink_id,                         \* the EventSink object sink_ owns, NoSink = none
  sink_seen                        \* the object each thread's if (sink_) saw

raceVars == <<stopping, stopped, sink_id, sink_seen>>

\* What the steps of one component leave alone.
otherVars == <<statusVars, adapterVars, netVars, parserVars, handlerVars>>
notObserverVars == <<otherVars, raceVars>>
notStatusVars ==
  <<observerVars, adapterVars, netVars, parserVars, handlerVars, raceVars>>
notAdapterVars ==
  <<observerVars, statusVars, netVars, parserVars, handlerVars, raceVars>>
notNetVars ==
  <<observerVars, statusVars, adapterVars, parserVars, handlerVars, raceVars>>
notParserVars ==
  <<observerVars, statusVars, adapterVars, netVars, handlerVars, raceVars>>
notPluginVars == <<statusVars, netVars, parserVars, handlerVars, raceVars>>

vars ==
  <<observerVars, statusVars, adapterVars, netVars, parserVars, handlerVars,
    raceVars>>

Range(s) == {s[i] : i \in 1..Len(s)}

Init ==
  /\ adapters_mutex_ = NoThread
  /\ monitored_adapters_ = <<>>
  /\ notifications_registered_ = FALSE
  /\ interface_notification_handle_ = NullHandle
  /\ sink_ = FALSE
  /\ os_subscriptions = {}
  /\ pc = [t \in Threads |-> "idle"]
  /\ luid = [t \in Threads |-> NullLuid]
  /\ handle_to_cancel = [t \in Threads |-> NullHandle]
  /\ in_callback = [t \in Threads |-> NullHandle]
  /\ delivered = NoEvent
  /\ if_table = [l \in Luids |-> NoIfEntry]
  /\ last_status = NoEvent
  /\ plugin_alive = TRUE
  /\ wg_library_ = NullLibrary
  /\ adapters_ = <<>>
  /\ libraries = [id \in LibraryIds |-> NoLibraryObject]
  /\ dll_present = TRUE
  /\ dll_exports = EntryPoints
  /\ image_refs = 0
  /\ handles_issued = 0
  /\ close_count = [h \in Handles |-> 0]
  /\ driver_calls = <<>>
  /\ returned = NoEvent
  /\ ip_table = [key \in NetKeys |-> 0]
  /\ interface_ = [has_private_key |-> FALSE, has_public_key |-> FALSE,
                   has_listen_port |-> FALSE, private_key |-> "uninit",
                   public_key |-> "uninit", listen_port |-> 0,
                   addresses |-> <<>>]
  /\ peers_ = <<>>
  /\ buffer = <<>>
  /\ parser_returned = NoEvent
  /\ disconnect_pc = "idle"
  /\ target_adapter = 0
  /\ flow = <<>>
  /\ route_table = [key \in NetKeys |-> 0]
  /\ net_calls = {}
  /\ net_returned = NoEvent
  /\ stopping = [t \in Threads |-> NullLuid]
  /\ stopped = {}
  /\ sink_id = NoSink
  /\ sink_seen = [t \in Threads |-> NoSink]

\* ----------------------------------------------------------------- helpers
\* std::find_if over monitored_adapters_ by luid.Value
GetMonitoredAdapter(l) == l \in Range(monitored_adapters_)

\* IsMonitoring(luid), called with no other thread in the observer.
IsMonitoring(l) == GetMonitoredAdapter(l)

\* std::find_if + erase(it): removes the first element equal to l, if any.
RECURSIVE EraseFirst(_, _)
EraseFirst(s, l) ==
  IF s = <<>> THEN <<>>
  ELSE IF Head(s) = l THEN Tail(s)
  ELSE <<Head(s)>> \o EraseFirst(Tail(s), l)

\* Handles some part of the program or the OS still refers to.
HandlesInUse ==
  (os_subscriptions \cup {interface_notification_handle_}
     \cup {handle_to_cancel[t] : t \in Threads}
     \cup {in_callback[t] : t \in Threads}) \ {NullHandle}

\* The handle the OS hands out for a new subscription: one nothing refers to.
FreshHandle ==
  CHOOSE h \in 1..(Cardinality(HandlesInUse) + 1) :
    /\ h \notin HandlesInUse
    /\ \A g \in 1..(h - 1) : g \in HandlesInUse

\* A thread leaves the observer's code; a callback thread returns to the OS.
Return(t) ==
  /\ pc' = [pc EXCEPT ![t] = "idle"]
  /\ luid' = [luid EXCEPT ![t] = NullLuid]
  /\ handle_to_cancel' = [handle_to_cancel EXCEPT ![t] = NullHandle]
  /\ in_callback' = [in_callback EXCEPT ![t] = NullHandle]

Goto(t, label) == pc' = [pc EXCEPT ![t] = label]

\* Mutant: the event is built but never handed to the sink.
NotifyStatusChange_Dropped(l, s) ==
  delivered' = NoEvent

\* NotifyStatusChange: the event reaches the sink only if one is attached.
NotifyStatusChange(l, s) ==
  delivered' = IF sink_ THEN <<l, s>> ELSE NoEvent


\* ------------------------------------------- calls made by the application
\* An idle thread enters one of the observer's public operations.
CallStartObservingBody(t, l) ==
  /\ pc[t] = "idle"
  /\ Goto(t, "so_lock")
  /\ luid' = [luid EXCEPT ![t] = l]
  /\ delivered' = NoEvent
  /\ UNCHANGED <<adapters_mutex_, monitored_adapters_, notifications_registered_,
                 interface_notification_handle_, sink_, os_subscriptions,
                 handle_to_cancel, in_callback>>

CallStartObserving(t, l) ==
  CallStartObservingBody(t, l) /\ UNCHANGED notObserverVars

CallStopObserving(t, l) ==
  /\ pc[t] = "idle"
  /\ Goto(t, "st_lock")
  /\ luid' = [luid EXCEPT ![t] = l]
  /\ delivered' = NoEvent
  /\ UNCHANGED <<adapters_mutex_, monitored_adapters_, notifications_registered_,
                 interface_notification_handle_, sink_, os_subscriptions,
                 handle_to_cancel, in_callback>>
  /\ UNCHANGED notObserverVars

CallStopAllObserving(t) ==
  /\ pc[t] = "idle"
  /\ Goto(t, "sa_lock")
  /\ delivered' = NoEvent
  /\ UNCHANGED <<adapters_mutex_, monitored_adapters_, notifications_registered_,
                 interface_notification_handle_, sink_, os_subscriptions, luid,
                 handle_to_cancel, in_callback>>
  /\ UNCHANGED notObserverVars

\* ------------------------------------------------------------ StartObserving
\* Mutant: the lookup never finds the luid.
StartObservingFound_Never(l) == FALSE

\* Mutant: the error branch logs but does not return before push_back.
StartObservingSubscribeFailed_StillAdds(t) ==
  /\ pc[t] = "so_failed"
  /\ adapters_mutex_' = NoThread
  /\ Return(t)
  /\ delivered' = NoEvent
  /\ monitored_adapters_' = Append(monitored_adapters_, luid[t])
  /\ UNCHANGED <<notifications_registered_, interface_notification_handle_,
                 sink_, os_subscriptions>>
  /\ UNCHANGED notObserverVars

\* The holder of the mutex once StartObserving's lock_guard (line 28, alive to
\* the end of the function) is destroyed.
StartObservingUnlock(t) == NoThread

\* line 30: auto found_adapter = GetMonitoredAdapter(luid)
StartObservingFound(l) == GetMonitoredAdapter(l)

\* lines 32-35: already monitored: log and return.
StartObservingAlreadyMonitored(t) ==
  /\ adapters_mutex_' = StartObservingUnlock(t)
  /\ Return(t)
  /\ delivered' = NoEvent

\* lines 28-38: take the lock (blocks until it is free), look the luid up,
\* return if it is monitored, else go on to register or to add.
StartObservingLock(t) ==
  /\ pc[t] = "so_lock"
  /\ adapters_mutex_ = NoThread
  /\ IF StartObservingFound(luid[t])
       THEN StartObservingAlreadyMonitored(t)
       ELSE /\ adapters_mutex_' = t
            /\ Goto(t, IF notifications_registered_ THEN "so_push_back"
                                                    ELSE "so_subscribe")
            /\ delivered' = NoEvent
            /\ UNCHANGED <<luid, handle_to_cancel, in_callback>>
  /\ UNCHANGED <<monitored_adapters_, notifications_registered_,
                 interface_notification_handle_, sink_, os_subscriptions>>
  /\ UNCHANGED notObserverVars

\* lines 41-44: NotifyIpInterfaceChange returned an error (result != NO_ERROR):
\* the error is logged and the function returns.
StartObservingSubscribeFailed(t) ==
  /\ pc[t] = "so_failed"
  /\ adapters_mutex_' = StartObservingUnlock(t)
  /\ Return(t)
  /\ delivered' = NoEvent
  /\ UNCHANGED <<monitored_adapters_, notifications_registered_,
                 interface_notification_handle_, sink_, os_subscriptions>>
  /\ UNCHANGED notObserverVars

\* lines 39-48: NotifyIpInterfaceChange(AF_UNSPEC, callback, this, FALSE, &handle)
StartObservingSubscribe(t) ==
  /\ pc[t] = "so_subscribe"
  /\ delivered' = NoEvent
  /\ \E ok \in BOOLEAN :
       IF ok
         THEN /\ interface_notification_handle_' = FreshHandle
              /\ os_subscriptions' = os_subscriptions \cup {FreshHandle}
              /\ notifications_registered_' = TRUE
              /\ Goto(t, "so_push_back")
         ELSE /\ Goto(t, "so_failed")
              /\ UNCHANGED <<interface_notification_handle_, os_subscriptions,
                             notifications_registered_>>
  /\ UNCHANGED <<adapters_mutex_, monitored_adapters_, sink_, luid,
                 handle_to_cancel, in_callback>>
  /\ UNCHANGED notObserverVars

\* lines 50-55: monitored_adapters_.push_back(luid); if (sink_) ... else return.
StartObservingPushBack(t) ==
  /\ pc[t] = "so_push_back"
  /\ monitored_adapters_' = Append(monitored_adapters_, luid[t])
  /\ delivered' = NoEvent
  /\ IF sink_
       THEN /\ Goto(t, "so_notify")
            /\ UNCHANGED <<adapters_mutex_, luid, handle_to_cancel, in_callback>>
       ELSE /\ adapters_mutex_' = StartObservingUnlock(t)
            /\ Return(t)
  /\ UNCHANGED <<notifications_registered_, interface_notification_handle_,
                 sink_, os_subscriptions>>
  /\ UNCHANGED notObserverVars

\* lines 56-59: current_status = GetInterfaceStatus(luid), whose answer is the
\* OS's (GetIfEntry2); NotifyStatusChange(luid, current_status); return.
StartObservingNotify(t) ==
  /\ pc[t] = "so_notify"
  /\ \E s \in QueriedStatuses : NotifyStatusChange(luid[t], s)
  /\ adapters_mutex_' = StartObservingUnlock(t)
  /\ Return(t)
  /\ UNCHANGED <<monitored_adapters_, notifications_registered_,
                 interface_notification_handle_, sink_, os_subscriptions>>
  /\ UNCHANGED notObserverVars

StartObserving(t) ==
  \/ StartObservingLock(t)
  \/ StartObservingSubscribe(t)
  \/ StartObservingSubscribeFailed(t)
  \/ StartObservingPushBack(t)
  \/ StartObservingNotify(t)

\* -------------------------------------------------- CancelMibChangeNotify2
\* The call takes the subscription out of the OS: no new callback starts.
CancelMibChangeNotify2(t, from, to) ==
  /\ pc[t] = from
  /\ handle_to_cancel[t] # NullHandle
  /\ os_subscriptions' = os_subscriptions \ {handle_to_cancel[t]}
  /\ Goto(t, to)
  /\ delivered' = NoEvent
  /\ UNCHANGED <<adapters_mutex_, monitored_adapters_, notifications_registered_,
                 interface_notification_handle_, sink_, luid, handle_to_cancel,
                 in_callback>>
  /\ UNCHANGED notObserverVars

\* The callbacks of subscription h that have started and not returned.
CallbacksInFlight(h) == {u \in Threads : in_callback[u] = h}

\* The call returns once no callback of that subscription is in flight.
CancelReturnsBody(t, from) ==
  /\ pc[t] = from
  /\ CallbacksInFlight(handle_to_cancel[t]) = {}
  /\ Return(t)
  /\ delivered' = NoEvent
  /\ UNCHANGED <<adapters_mutex_, monitored_adapters_, notifications_registered_,
                 interface_notification_handle_, sink_, os_subscriptions>>

CancelReturns(t, from) ==
  CancelReturnsBody(t, from) /\ UNCHANGED notObserverVars

\* if (handle) is false: nothing to cancel, the operation returns.
NothingToCancelBody(t, from) ==
  /\ pc[t] = from
  /\ handle_to_cancel[t] = NullHandle
  /\ Return(t)
  /\ delivered' = NoEvent
  /\ UNCHANGED <<adapters_mutex_, monitored_adapters_, notifications_registered_,
                 interface_notification_handle_, sink_, os_subscriptions>>

NothingToCancel(t, from) ==
  NothingToCancelBody(t, from) /\ UNCHANGED notObserverVars

\* ------------------------------------------------------------- StopObserving
\* Mutant: the lock is still held when the block is left.
StopObservingUnlock_KeepsLock(t) == t

\* Mutant: the subscription is dropped although adapters remain.
StopObservingLastAdapter_IgnoresEmpty(remaining) ==
  notifications_registered_

\* Mutant: erase is called with the iterator find_if returned even when it
\* found nothing, and takes an element of the vector with it.
StopObservingErase_PopsWhenMissing(s, l) ==
  IF l \in Range(s) THEN EraseFirst(s, l)
  ELSE IF s = <<>> THEN s ELSE Tail(s)

\* The holder of the mutex once the scope of lines 67-86 is left.
StopObservingUnlock(t) == NoThread

\* line 79: if (monitored_adapters_.empty() && notifications_registered_)
StopObservingLastAdapter(remaining) ==
  remaining = <<>> /\ notifications_registered_

\* lines 70-76: it = find_if(...); if (it != end()) erase(it)
StopObservingErase(s, l) ==
  IF l \in Range(s) THEN EraseFirst(s, l) ELSE s

\* lines 67-86: take the lock (blocks until it is free), find, erase, take the
\* handle if the set became empty, release the lock at the end of the scope.
StopObservingCriticalBody(t) ==
  /\ pc[t] = "st_lock"
  /\ adapters_mutex_ = NoThread
  /\ delivered' = NoEvent
  /\ LET found == GetMonitoredAdapter(luid[t])
         remaining == StopObservingErase(monitored_adapters_, luid[t])
     IN /\ monitored_adapters_' = remaining
        /\ IF found /\ StopObservingLastAdapter(remaining)
             THEN /\ handle_to_cancel' =
                       [handle_to_cancel EXCEPT ![t] = interface_notification_handle_]
                  /\ interface_notification_handle_' = NullHandle
                  /\ notifications_registered_' = FALSE
             ELSE UNCHANGED <<handle_to_cancel, interface_notification_handle_,
                              notifications_registered_>>
  /\ adapters_mutex_' = StopObservingUnlock(t)
  /\ Goto(t, "st_cancel")
  /\ luid' = [luid EXCEPT ![t] = NullLuid]    \* not read after line 76
  /\ UNCHANGED <<sink_, os_subscriptions, in_callback>>

StopObservingCritical(t) ==
  StopObservingCriticalBody(t) /\ UNCHANGED notObserverVars

\* lines 89-97
StopObservingCancel(t) ==
  \/ CancelMibChangeNotify2(t, "st_cancel", "st_wait")
  \/ NothingToCancel(t, "st_cancel")

StopObservingCancelReturns(t) == CancelReturns(t, "st_wait")

StopObserving(t) ==
  \/ StopObservingCritical(t)
  \/ StopObservingCancel(t)
  \/ StopObservingCancelReturns(t)

\* ---------------------------------------------------------- StopAllObserving
\* The holder of the mutex once the scope of lines 103-113 is left.
StopAllObservingUnlock(t) == NoThread

\* lines 103-113: take the lock, clear, take the handle if registered, release.
StopAllObservingCritical(t) ==
  /\ pc[t] = "sa_lock"
  /\ adapters_mutex_ = NoThread
  /\ delivered' = NoEvent
  /\ monitored_adapters_' = <<>>
  /\ IF notifications_registered_
       THEN /\ handle_to_cancel' =
                 [handle_to_cancel EXCEPT ![t] = interface_notification_handle_]
            /\ interface_notification_handle_' = NullHandle
            /\ notifications_registered_' = FALSE
       ELSE UNCHANGED <<handle_to_cancel, interface_notification_handle_,
                        notifications_registered_>>
  /\ adapters_mutex_' = StopAllObservingUnlock(t)
  /\ Goto(t, "sa_cancel")
  /\ UNCHANGED <<sink_, os_subscriptions, luid, in_callback>>
  /\ UNCHANGED notObserverVars

\* Variant: StopAllObserving without the block of lines 116-124.
StopAllObservingCancel_Never(t) ==
  /\ pc[t] = "sa_cancel"
  /\ Return(t)
  /\ delivered' = NoEvent
  /\ UNCHANGED <<adapters_mutex_, monitored_adapters_, notifications_registered_,
                 interface_notification_handle_, sink_, os_subscriptions>>
  /\ UNCHANGED notObserverVars

\* lines 116-124
StopAllObservingCancel(t) ==
  \/ CancelMibChangeNotify2(t, "sa_cancel", "sa_wait")
  \/ NothingToCancel(t, "sa_cancel")

StopAllObservingCancelReturns(t) == CancelReturns(t, "sa_wait")

StopAllObserving(t) ==
  \/ StopAllObservingCritical(t)
  \/ StopAllObservingCancel(t)
  \/ StopAllObservingCancelReturns(t)

\* ------------------------------------------------------------ the OS callback
\* lines 134-142: the OS runs IpInterfaceChangeCallback on one of its threads
\* for a live subscription h and the row of any link of the host.
IpInterfaceChangeCallback(t, h, l) ==
  /\ pc[t] = "idle"
  /\ h \in os_subscriptions
  /\ Goto(t, "cb_lock")
  /\ luid' = [luid EXCEPT ![t] = l]
  /\ in_callback' = [in_callback EXCEPT ![t] = h]
  /\ delivered' = NoEvent
  /\ UNCHANGED <<adapters_mutex_, monitored_adapters_, notifications_registered_,
                 interface_notification_handle_, sink_, os_subscriptions,
                 handle_to_cancel>>
  /\ UNCHANGED notObserverVars

\* The holder of the mutex once the scope of lines 147-152 is left.
HandleInterfaceChangeUnlock(t) == NoThread

\* Mutant: the callback goes on for every link.
HandleInterfaceChangeMonitored_Always(l) == TRUE

\* line 149: the lookup that decides whether the callback goes on.
HandleInterfaceChangeMonitored(l) == GetMonitoredAdapter(l)

\* lines 147-154: take the lock (blocks until it is free) for the lookup and
\* release it; not monitored -> return.
HandleInterfaceChangeLookup(t) ==
  /\ pc[t] = "cb_lock"
  /\ adapters_mutex_ = NoThread
  /\ delivered' = NoEvent
  /\ adapters_mutex_' = HandleInterfaceChangeUnlock(t)
  /\ IF HandleInterfaceChangeMonitored(luid[t])
       THEN /\ Goto(t, "cb_notify")
            /\ UNCHANGED <<luid, handle_to_cancel, in_callback>>
       ELSE Return(t)
  /\ UNCHANGED <<monitored_adapters_, notifications_registered_,
                 interface_notification_handle_, sink_, os_subscriptions>>
  /\ UNCHANGED notObserverVars

\* lines 154-158: status = GetInterfaceStatus(luid), whose answer is the OS's
\* (GetIfEntry2); NotifyStatusChange(luid, status); the callback returns.
HandleInterfaceChangeNotify(t) ==
  /\ pc[t] = "cb_notify"
  /\ \E s \in QueriedStatuses : NotifyStatusChange(luid[t], s)
  /\ Return(t)
  /\ UNCHANGED <<adapters_mutex_, monitored_adapters_, notifications_registered_,
                 interface_notification_handle_, sink_, os_subscriptions>>
  /\ UNCHANGED notObserverVars

HandleInterfaceChange(t) ==
  \/ HandleInterfaceChangeLookup(t)
  \/ HandleInterfaceChangeNotify(t)

\* ------------------------------------------------------------------ the sink
\* lines 204-209: sink_ = std::move(events)
OnListenInternalBody ==
  /\ sink_' = TRUE
  /\ delivered' = NoEvent
  /\ UNCHANGED <<adapters_mutex_, monitored_adapters_, notifications_registered_,
                 interface_notification_handle_, os_subscriptions, pc, luid,
                 handle_to_cancel, in_callback>>

OnListenInternal ==
  OnListenInternalBody /\ UNCHANGED notObserverVars

\* lines 211-217: if (sink_) sink_.reset()
OnCancelInternalBody ==
  /\ sink_' = FALSE
  /\ delivered' = NoEvent
  /\ UNCHANGED <<adapters_mutex_, monitored_adapters_, notifications_registered_,
                 interface_notification_handle_, os_subscriptions, pc, luid,
                 handle_to_cancel, in_callback>>

OnCancelInternal ==
  OnCancelInternalBody /\ UNCHANGED notObserverVars

\* ------------------------------------------------------------ specification
Next ==
  \/ \E t \in Threads, l \in Luids : CallStartObserving(t, l)
  \/ \E t \in Threads, l \in Luids : CallStopObserving(t, l)
  \/ \E t \in Threads : CallStopAllObserving(t)
  \/ \E t \in Threads : StartObserving(t)
  \/ \E t \in Threads : StopObserving(t)
  \/ \E t \in Threads : StopAllObserving(t)
  \/ \E t \in Threads, h \in os_subscriptions, l \in Luids :
       IpInterfaceChangeCallback(t, h, l)
  \/ \E t \in Threads : HandleInterfaceChange(t)
  \/ OnListenInternal
  \/ OnCancelInternal

Spec == Init /\ [][Next]_vars

\* ------------------------------------------- StopObserving from a callback
\* The scenario of a sink consumer that, while the callback thread delivers
\* the event to it (sink_->Success, line 166), calls StopObserving(l) on that
\* same thread: the OS callback has not returned while StopObserving runs.
SinkCallsStopObserving(t, l) ==
  /\ pc[t] = "cb_notify"
  /\ sink_
  /\ \E s \in QueriedStatuses : NotifyStatusChange(luid[t], s)
  /\ Goto(t, "st_lock")
  /\ luid' = [luid EXCEPT ![t] = l]
  /\ UNCHANGED <<adapters_mutex_, monitored_adapters_, notifications_registered_,
                 interface_notification_handle_, sink_, os_subscriptions,
                 handle_to_cancel, in_callback>>
  /\ UNCHANGED notObserverVars

NextCb ==
  \/ Next
  \/ \E t \in Threads, l \in Luids : SinkCallsStopObserving(t, l)

\* A step of thread t inside the observer's code.
ThreadStep(t) ==
  \/ StartObserving(t)
  \/ StopObserving(t)
  \/ StopAllObserving(t)
  \/ HandleInterfaceChange(t)
  \/ \E l \in Luids : SinkCallsStopObserving(t, l)

\* Every thread is scheduled: a thread that can take a step again and again
\* (a free mutex, a cancel with no callback in flight) eventually takes one.
FairSpecCb ==
  Init /\ [][NextCb]_vars /\ \A t \in Threads : SF_vars(ThreadStep(t))


\* ------------------------------------- StopObserving followed to its return
\* The observer's operations with a record of the luids whose StopObserving
\* has returned while no StartObserving for the luid was under way or has
\* been called since the stop's locked block.
StartingThreads(l) ==
  {u \in Threads : luid[u] = l
                     /\ pc[u] \in {"so_lock", "so_subscribe", "so_failed",
                                   "so_push_back", "so_notify"}}

\* A StartObserving(l) call: l is started again, for the stops that have
\* returned and for those still on their way out.
StoppedCallStartObserving(t, l) ==
  /\ CallStartObservingBody(t, l)
  /\ stopped' = stopped \ {l}
  /\ stopping' = [u \in Threads |->
                    IF stopping[u] = l THEN NullLuid ELSE stopping[u]]
  /\ UNCHANGED <<sink_id, sink_seen, otherVars>>

StoppedStopObservingCritical(t) ==
  /\ StopObservingCriticalBody(t)
  /\ stopping' = [stopping EXCEPT
                    ![t] = IF StartingThreads(luid[t]) = {} THEN luid[t]
                           ELSE NullLuid]
  /\ UNCHANGED <<stopped, sink_id, sink_seen, otherVars>>

StoppedStopObservingReturns(t) ==
  /\ \/ NothingToCancelBody(t, "st_cancel")
     \/ CancelReturnsBody(t, "st_wait")
  /\ stopped' = stopped \cup ({stopping[t]} \ {NullLuid})
  /\ stopping' = [stopping EXCEPT ![t] = NullLuid]
  /\ UNCHANGED <<sink_id, sink_seen, otherVars>>

NextStopped ==
  \/ \E t \in Threads, l \in Luids : StoppedCallStartObserving(t, l)
  \/ \E t \in Threads, l \in Luids : CallStopObserving(t, l)
  \/ \E t \in Threads : CallStopAllObserving(t)
  \/ \E t \in Threads : StartObserving(t)
  \/ \E t \in Threads : StoppedStopObservingCritical(t)
  \/ \E t \in Threads : CancelMibChangeNotify2(t, "st_cancel", "st_wait")
  \/ \E t \in Threads : StoppedStopObservingReturns(t)
  \/ \E t \in Threads : StopAllObserving(t)
  \/ \E t \in Threads, h \in os_subscriptions, l \in Luids :
       IpInterfaceChangeCallback(t, h, l)
  \/ \E t \in Threads : HandleInterfaceChange(t)
  \/ OnListenInternal
  \/ OnCancelInternal

SpecStopped == Init /\ [][NextStopped]_vars

\* ------------------------------------------- the sink between check and use
\* NotifyStatusChange in its two steps: if (sink_) (line 162), then
\* sink_->Success(...) (line 166).  OnListenInternal and OnCancelInternal
\* assign sink_ without the mutex, so either can run in between.
SinksInUse == ({sink_id} \cup {sink_seen[t] : t \in Threads}) \ {NoSink}

\* The EventSink object the engine hands to OnListenInternal: a new one.
FreshSink ==
  CHOOSE k \in 1..(Cardinality(SinksInUse) + 1) :
    /\ k \notin SinksInUse
    /\ \A g \in 1..(k - 1) : g \in SinksInUse

\* lines 204-209: sink_ = std::move(events) destroys the object it held.
SinkOnListenInternal ==
  /\ OnListenInternalBody
  /\ sink_id' = FreshSink
  /\ UNCHANGED <<stopping, stopped, sink_seen, otherVars>>

\* lines 211-217: sink_.reset() destroys the object.
SinkOnCancelInternal ==
  /\ OnCancelInternalBody
  /\ sink_id' = NoSink
  /\ UNCHANGED <<stopping, stopped, sink_seen, otherVars>>

\* What sink_->Success does for the caller that checked object seen: the
\* event reaches the sink if sink_ still owns that object; if the object was
\* destroyed in between, the call is undefined and may deliver or not.
SinkSuccess(seen, l) ==
  IF seen = sink_id
  THEN \E s \in QueriedStatuses : delivered' = <<l, s>>
  ELSE \/ delivered' = NoEvent
       \/ \E s \in QueriedStatuses : delivered' = <<l, s>>

\* line 162 on the callback thread, after the unlocked status query.
SinkHandleInterfaceChangeCheck(t) ==
  /\ pc[t] = "cb_notify"
  /\ delivered' = NoEvent
  /\ IF sink_
       THEN /\ Goto(t, "cb_push")
            /\ sink_seen' = [sink_seen EXCEPT ![t] = sink_id]
            /\ UNCHANGED <<luid, handle_to_cancel, in_callback>>
       ELSE /\ Return(t)
            /\ UNCHANGED sink_seen
  /\ UNCHANGED <<adapters_mutex_, monitored_adapters_, notifications_registered_,
                 interface_notification_handle_, sink_, os_subscriptions>>
  /\ UNCHANGED <<stopping, stopped, sink_id, otherVars>>

\* line 166 on the callback thread; the callback returns.
SinkHandleInterfaceChangePush(t) ==
  /\ pc[t] = "cb_push"
  /\ SinkSuccess(sink_seen[t], luid[t])
  /\ sink_seen' = [sink_seen EXCEPT ![t] = NoSink]
  /\ Return(t)
  /\ UNCHANGED <<adapters_mutex_, monitored_adapters_, notifications_registered_,
                 interface_notification_handle_, sink_, os_subscriptions>>
  /\ UNCHANGED <<stopping, stopped, sink_id, otherVars>>

\* line 162 inside StartObserving (lines 55-58), the mutex held.
SinkStartObservingCheck(t) ==
  /\ pc[t] = "so_notify"
  /\ delivered' = NoEvent
  /\ IF sink_
       THEN /\ Goto(t, "so_push")
            /\ sink_seen' = [sink_seen EXCEPT ![t] = sink_id]
            /\ UNCHANGED <<adapters_mutex_, luid, handle_to_cancel, in_callback>>
       ELSE /\ adapters_mutex_' = StartObservingUnlock(t)
            /\ Return(t)
            /\ UNCHANGED sink_seen
  /\ UNCHANGED <<monitored_adapters_, notifications_registered_,
                 interface_notification_handle_, sink_, os_subscriptions>>
  /\ UNCHANGED <<stopping, stopped, sink_id, otherVars>>

\* line 166 inside StartObserving; the function returns and unlocks.
SinkStartObservingPush(t) ==
  /\ pc[t] = "so_push"
  /\ SinkSuccess(sink_seen[t], luid[t])
  /\ sink_seen' = [sink_seen EXCEPT ![t] = NoSink]
  /\ adapters_mutex_' = StartObservingUnlock(t)
  /\ Return(t)
  /\ UNCHANGED <<monitored_adapters_, notifications_registered_,
                 interface_notification_handle_, sink_, os_subscriptions>>
  /\ UNCHANGED <<stopping, stopped, sink_id, otherVars>>

NextSink ==
  \/ \E t \in Threads, l \in Luids : CallStartObserving(t, l)
  \/ \E t \in Threads, l \in Luids : CallStopObserving(t, l)
  \/ \E t \in Threads : CallStopAllObserving(t)
  \/ \E t \in Threads : StartObservingLock(t)
  \/ \E t \in Threads : StartObservingSubscribe(t)
  \/ \E t \in Threads : StartObservingSubscribeFailed(t)
  \/ \E t \in Threads : StartObservingPushBack(t)
  \/ \E t \in Threads : SinkStartObservingCheck(t)
  \/ \E t \in Threads : SinkStartObservingPush(t)
  \/ \E t \in Threads : StopObserving(t)
  \/ \E t \in Threads : StopAllObserving(t)
  \/ \E t \in Threads, h \in os_subscriptions, l \in Luids :
       IpInterfaceChangeCallback(t, h, l)
  \/ \E t \in Threads : HandleInterfaceChangeLookup(t)
  \/ \E t \in Threads : SinkHandleInterfaceChangeCheck(t)
  \/ \E t \in Threads : SinkHandleInterfaceChangePush(t)
  \/ SinkOnListenInternal
  \/ SinkOnCancelInternal

SpecSink == Init /\ [][NextSink]_vars


\* ---------------------------------------------------------- status derivation
\* The operational states a row of the interface table can hold.
IfTableValues == OperStatusValues \cup {NoIfEntry}

\* The host changes a link's operational status, or adds or removes its row.
OsSetOperStatus(l, s) ==
  /\ if_table[l] # s
  /\ if_table' = [if_table EXCEPT ![l] = s]
  /\ UNCHANGED <<last_status, notStatusVars>>

\* GetInterfaceStatus(luid): GetIfEntry2, then the switch on OperStatus.
QueryInterfaceStatus(l) ==
  /\ last_status' = <<l, GetInterfaceStatus(if_table[l] # NoIfEntry, if_table[l])>>
  /\ UNCHANGED <<if_table, notStatusVars>>

NextStatus ==
  \/ \E l \in Luids, s \in IfTableValues : OsSetOperStatus(l, s)
  \/ \E l \in Luids : QueryInterfaceStatus(l)

SpecStatus == Init /\ [][NextStatus]_vars


\* ------------------------------------------------------------ WireguardLibrary
\* Variant: LoadFunctions that does not check the last name it resolves.
FirstMissing_LastUnchecked(exports) ==
  LET missing == {i \in 1..(Len(EntryPointOrder) - 1) : EntryPointOrder[i] \notin exports}
  IN IF missing = {} THEN 0
     ELSE CHOOSE i \in missing : \A j \in missing : i <= j

\* The first name GetProcAddress does not resolve, 0 if it resolves them all.
FirstMissing(exports) ==
  LET missing == {i \in 1..Len(EntryPointOrder) : EntryPointOrder[i] \notin exports}
  IN IF missing = {} THEN 0
     ELSE CHOOSE i \in missing : \A j \in missing : i <= j

\* LoadFunctions: resolves the names in order and throws at the first one
\* missing; the pointers assigned before the throw stay assigned.
LoadFunctions(exports) ==
  LET k == FirstMissing(exports)
  IN [threw |-> k # 0,
      functions |-> {EntryPointOrder[i] :
                       i \in 1..(IF k = 0 THEN Len(EntryPointOrder) ELSE k - 1)}
                    \cap exports]

\* LoadLibrary: the object's fields afterwards, the value returned, and the
\* LoadLibraryW / FreeLibrary calls made.
LoadLibrary(present, exports) ==
  IF ~present
  THEN [ret |-> FALSE, dll_handle_ |-> FALSE, functions |-> {},
        loads |-> 0, frees |-> 0]
  ELSE LET f == LoadFunctions(exports)
       IN IF f.threw
          THEN [ret |-> FALSE, dll_handle_ |-> FALSE, functions |-> f.functions,
                loads |-> 1, frees |-> 1]
          ELSE [ret |-> TRUE, dll_handle_ |-> TRUE, functions |-> f.functions,
                loads |-> 1, frees |-> 0]

\* ~WireguardLibrary: FreeLibrary if the image is held.
LibraryDestructorFrees(object) == IF object.dll_handle_ THEN 1 ELSE 0

\* WireguardLibrary::Create: the object it returns (ok), or the object it
\* built and destroyed again (~ok); net LoadLibraryW calls left unmatched.
WireguardLibrary_Create(present, exports) ==
  LET r == LoadLibrary(present, exports)
      object == [dll_handle_ |-> r.dll_handle_, functions |-> r.functions,
                 use_count |-> 0]
  IN IF r.ret
     THEN [ok |-> TRUE, object |-> object, image |-> r.loads - r.frees]
     ELSE [ok |-> FALSE, object |-> object,
           image |-> r.loads - r.frees - LibraryDestructorFrees(object)]

IsLoaded(libs, id) == libs[id].dll_handle_

\* std::shared_ptr<WireguardLibrary>: one more owner.
Retain(libs, id) ==
  IF id = NullLibrary THEN libs
  ELSE [libs EXCEPT ![id].use_count = @ + 1]

\* std::shared_ptr<WireguardLibrary>: one owner less; the last one runs
\* ~WireguardLibrary.
Release(libs, id) ==
  IF id = NullLibrary THEN libs
  ELSE IF libs[id].use_count <= 1 THEN [libs EXCEPT ![id] = NoLibraryObject]
  ELSE [libs EXCEPT ![id].use_count = @ - 1]

\* FreeLibrary calls made by the destructors run between libs and after.
ImageFrees(libs, after) ==
  Cardinality({id \in LibraryIds : libs[id].dll_handle_ /\ ~after[id].dll_handle_})

FreshLibrary ==
  CHOOSE id \in LibraryIds :
    /\ libraries[id] = NoLibraryObject
    /\ \A other \in LibraryIds : libraries[other] = NoLibraryObject => id <= other

\* The driver DLL is installed or removed.
OsDllPresent(b) ==
  /\ dll_present # b
  /\ dll_present' = b
  /\ UNCHANGED <<plugin_alive, wg_library_, adapters_, libraries, dll_exports,
                 image_refs, handles_issued, close_count, driver_calls, returned>>
  /\ UNCHANGED notAdapterVars

\* A DLL build that exports, or no longer exports, one of the names.
OsDllExport(name) ==
  /\ dll_exports' = IF name \in dll_exports THEN dll_exports \ {name}
                    ELSE dll_exports \cup {name}
  /\ UNCHANGED <<plugin_alive, wg_library_, adapters_, libraries, dll_present,
                 image_refs, handles_issued, close_count, driver_calls, returned>>
  /\ UNCHANGED notAdapterVars

\* HandleNativeInit: wg_library_ = WireguardLibrary::Create().
HandleNativeInit ==
  /\ plugin_alive
  /\ LET r == WireguardLibrary_Create(dll_present, dll_exports)
         id == FreshLibrary
         assigned == IF r.ok
                     THEN [libraries EXCEPT ![id] = [r.object EXCEPT !.use_count = 1]]
                     ELSE libraries
         released == Release(assigned, wg_library_)
     IN /\ wg_library_' = IF r.ok THEN id ELSE NullLibrary
        /\ libraries' = released
        /\ image_refs' = image_refs + r.image - ImageFrees(assigned, released)
        /\ returned' = [op |-> "WireguardLibrary::Create", ret |-> r.ok,
                        object |-> r.object]
  /\ driver_calls' = <<>>
  /\ UNCHANGED <<plugin_alive, adapters_, dll_present, dll_exports,
                 handles_issued, close_count>>
  /\ UNCHANGED notAdapterVars

NextLibrary ==
  \/ \E b \in BOOLEAN : OsDllPresent(b)
  \/ \E name \in EntryPoints : OsDllExport(name)
  \/ HandleNativeInit

SpecLibrary == Init /\ [][NextLibrary]_vars


\* ------------------------------------------------------------ WireguardAdapter
IsValid(a) == a.adapter_handle_ # NullHandle

\* A call of a driver entry point through the adapter's library: the handle
\* passed (for create and open, the handle returned) and whether the image
\* is loaded when the call is made.
DriverCall(libs, fn, library, h) ==
  [fn |-> fn, handle |-> h, loaded |-> IsLoaded(libs, library)]

Call(fn, a) == DriverCall(libraries, fn, a.library_, a.adapter_handle_)

\* if (!IsValid() || !library_->IsLoaded())
Unusable(a) == ~IsValid(a) \/ ~IsLoaded(libraries, a.library_)

\* Variant: SetState without the check of the handle and the library.
SetState_Unguarded(a, ok) ==
  [ret |-> ok, calls |-> <<Call("WireGuardSetAdapterState", a)>>]

SetState(a, ok) ==
  IF Unusable(a) THEN [ret |-> FALSE, calls |-> <<>>]
  ELSE [ret |-> ok, calls |-> <<Call("WireGuardSetAdapterState", a)>>]

GetState(a, ok, state) ==
  IF Unusable(a) THEN [ret |-> "DOWN", calls |-> <<>>]
  ELSE [ret |-> IF ok THEN state ELSE "DOWN",
        calls |-> <<Call("WireGuardGetAdapterState", a)>>]

SetConfiguration(a, config, ok) ==
  IF Unusable(a) \/ ~config THEN [ret |-> FALSE, calls |-> <<>>]
  ELSE [ret |-> ok, calls |-> <<Call("WireGuardSetConfiguration", a)>>]

GetLUID(a, luid_out) ==
  IF Unusable(a) \/ ~luid_out THEN [ret |-> FALSE, calls |-> <<>>]
  ELSE [ret |-> TRUE, calls |-> <<Call("WireGuardGetAdapterLUID", a)>>]

SetLogging(a, ok) ==
  IF Unusable(a) THEN [ret |-> FALSE, calls |-> <<>>]
  ELSE [ret |-> ok, calls |-> <<Call("WireGuardSetAdapterLogging", a)>>]

\* What the parser answers for a configuration text: whether Parse succeeds,
\* the size CalculateConfigurationSize returns and the size
\* BuildConfiguration returns.
ParserAnswers ==
  [parse : BOOLEAN, size : 0..MaxConfigSize, built : 0..MaxConfigSize]

\* Variant: ApplyConfiguration that hands the buffer to the driver without
\* comparing the built size with the calculated one.
ApplyConfiguration_NoSizeCheck(a, doc, set_ok, up_ok) ==
  IF Unusable(a)
  THEN [ret |-> FALSE, calls |-> <<>>, parsed_config_ |-> a.parsed_config_]
  ELSE IF ~doc.parse \/ doc.size = 0
  THEN [ret |-> FALSE, calls |-> <<>>, parsed_config_ |-> NoConfig]
  ELSE LET set == SetConfiguration(a, TRUE, set_ok)
           up == SetState(a, up_ok)
       IN IF ~set.ret
          THEN [ret |-> FALSE, calls |-> set.calls, parsed_config_ |-> NoConfig]
          ELSE [ret |-> up.ret, calls |-> set.calls \o up.calls,
                parsed_config_ |-> doc]

\* ApplyConfiguration: the value returned, the driver calls made and the
\* adapter's parsed_config_ afterwards.
ApplyConfiguration(a, doc, set_ok, up_ok) ==
  IF Unusable(a)
  THEN [ret |-> FALSE, calls |-> <<>>, parsed_config_ |-> a.parsed_config_]
  ELSE IF ~doc.parse
  THEN [ret |-> FALSE, calls |-> <<>>, parsed_config_ |-> NoConfig]
  ELSE IF doc.size = 0
  THEN [ret |-> FALSE, calls |-> <<>>, parsed_config_ |-> NoConfig]
  ELSE IF doc.built = 0 \/ doc.built # doc.size
  THEN [ret |-> FALSE, calls |-> <<>>, parsed_config_ |-> NoConfig]
  ELSE LET set == SetConfiguration(a, TRUE, set_ok)
           up == SetState(a, up_ok)
       IN IF ~set.ret
          THEN [ret |-> FALSE, calls |-> set.calls, parsed_config_ |-> NoConfig]
          \* line 157 stores the document before line 160 calls SetState
          ELSE IF ~up.ret
          THEN [ret |-> FALSE, calls |-> set.calls \o up.calls,
                parsed_config_ |-> doc]
          ELSE [ret |-> TRUE, calls |-> set.calls \o up.calls,
                parsed_config_ |-> doc]

\* Variant: the destructor closes the handle without looking at it.
AdapterDestructor_ClosesAlways(libs, a) ==
  [calls |-> <<DriverCall(libs, "WireGuardCloseAdapter", a.library_,
                          a.adapter_handle_)>>,
   libraries |-> Release(libs, a.library_)]

\* ~WireguardAdapter, then the release of its library_ member.
AdapterDestructor(libs, a) ==
  [calls |-> IF IsValid(a) /\ a.library_ # NullLibrary /\ IsLoaded(libs, a.library_)
             THEN <<DriverCall(libs, "WireGuardCloseAdapter", a.library_,
                               a.adapter_handle_)>>
             ELSE <<>>,
   libraries |-> Release(libs, a.library_)]

\* Variant: the factory returns the adapter whatever the driver answered.
FactoryReturns_Always(a) == TRUE

\* if (!adapter->adapter_handle_) return nullptr;
FactoryReturns(a) == a.adapter_handle_ # NullHandle

\* Variant: the adapter keeps a plain pointer to the library.
AdapterConstructor_NoShare(libs, library, name) ==
  [adapter |-> [name |-> name, library_ |-> library,
                adapter_handle_ |-> NullHandle, parsed_config_ |-> NoConfig],
   libraries |-> libs]

\* WireguardAdapter(library, name): library_(library), name_(name).
AdapterConstructor(libs, library, name) ==
  [adapter |-> [name |-> name, library_ |-> library,
                adapter_handle_ |-> NullHandle, parsed_config_ |-> NoConfig],
   libraries |-> Retain(libs, library)]

\* The body shared by WireguardAdapter::Create and WireguardAdapter::Open:
\* fn is the driver entry point, h the handle it returns.
AdapterFactory(libs, fn, library, name, h) ==
  IF library = NullLibrary \/ ~IsLoaded(libs, library)
  THEN [ok |-> FALSE, adapter |-> AdapterConstructor(libs, library, name).adapter,
        calls |-> <<>>, libraries |-> libs]
  ELSE LET built == AdapterConstructor(libs, library, name)
           call == DriverCall(built.libraries, fn, library, h)
           adapter == [built.adapter EXCEPT !.adapter_handle_ = h]
       IN IF FactoryReturns(adapter)
          THEN [ok |-> TRUE, adapter |-> adapter, calls |-> <<call>>,
                libraries |-> built.libraries]
          ELSE LET gone == AdapterDestructor(built.libraries, adapter)
               IN [ok |-> FALSE, adapter |-> adapter,
                   calls |-> <<call>> \o gone.calls,
                   libraries |-> gone.libraries]

WireguardAdapter_Create(libs, library, name, h) ==
  AdapterFactory(libs, "WireGuardCreateAdapter", library, name, h)

WireguardAdapter_Open(libs, library, name, h) ==
  AdapterFactory(libs, "WireGuardOpenAdapter", library, name, h)

\* close_count after the WireGuardCloseAdapter calls among calls.
CountCloses(calls) ==
  [h \in Handles |->
     close_count[h]
       + Cardinality({i \in 1..Len(calls) :
                        calls[i].fn = "WireGuardCloseAdapter" /\ calls[i].handle = h})]

\* The adapters of adapters_ destroyed one after the other.
RECURSIVE DestroyAdapters(_, _)
DestroyAdapters(libs, adapters) ==
  IF adapters = <<>> THEN [calls |-> <<>>, libraries |-> libs]
  ELSE LET first == AdapterDestructor(libs, Head(adapters))
           rest == DestroyAdapters(first.libraries, Tail(adapters))
       IN [calls |-> first.calls \o rest.calls, libraries |-> rest.libraries]

\* Variant: a lookup that never finds the name.
FindAdapterByName_Never(name) == {}

FindAdapterByName(name) ==
  {i \in 1..Len(adapters_) : adapters_[i].name = name}

\* The driver's luid of the adapter behind a handle: one luid per adapter.
GetAdapterLuid(h) == h

\* StartObserving(l) run from the plugin's thread with no other thread in
\* the observer; NotifyIpInterfaceChange, if called, succeeds or fails.
StartObservingRun(l) ==
  IF StartObservingFound(l)
  THEN /\ delivered' = NoEvent
       /\ UNCHANGED <<monitored_adapters_, notifications_registered_,
                      interface_notification_handle_, os_subscriptions>>
  ELSE \/ /\ ~notifications_registered_
          /\ delivered' = NoEvent
          /\ UNCHANGED <<monitored_adapters_, notifications_registered_,
                         interface_notification_handle_, os_subscriptions>>
       \/ /\ monitored_adapters_' = Append(monitored_adapters_, l)
          /\ IF notifications_registered_
             THEN UNCHANGED <<notifications_registered_,
                              interface_notification_handle_, os_subscriptions>>
             ELSE /\ notifications_registered_' = TRUE
                  /\ interface_notification_handle_' = FreshHandle
                  /\ os_subscriptions' = os_subscriptions \cup {FreshHandle}
          /\ \E s \in QueriedStatuses : NotifyStatusChange(l, s)

\* StopAllObserving run from the plugin's thread with no other thread in the
\* observer and no callback in flight.
StopAllObservingRun ==
  /\ monitored_adapters_' = <<>>
  /\ notifications_registered_' = FALSE
  /\ interface_notification_handle_' = NullHandle
  /\ os_subscriptions' =
       IF notifications_registered_
       THEN os_subscriptions \ {interface_notification_handle_}
       ELSE os_subscriptions
  /\ delivered' = NoEvent

\* The driver opens the adapter, or does not but creates it, or does neither.
SetupAnswers == {"opened", "created", "none"}

\* HandleSetupTunnel(name): answer tells what WireGuardOpenAdapter and
\* WireGuardCreateAdapter return.
HandleSetupTunnel(name, answer) ==
  /\ plugin_alive
  /\ adapters_mutex_ = NoThread
  /\ IF wg_library_ = NullLibrary \/ ~IsLoaded(libraries, wg_library_)
     THEN /\ driver_calls' = <<>>
          /\ returned' = [op |-> "setupTunnel", ret |-> FALSE]
          /\ delivered' = NoEvent
          /\ UNCHANGED <<adapters_, libraries, handles_issued, close_count,
                         monitored_adapters_, notifications_registered_,
                         interface_notification_handle_, os_subscriptions>>
     ELSE IF FindAdapterByName(name) # {}
     THEN LET existing == adapters_[CHOOSE i \in FindAdapterByName(name) :
                                      \A j \in FindAdapterByName(name) : i <= j]
              luid_ == GetLUID(existing, TRUE)
          IN /\ driver_calls' = IF IsValid(existing) THEN luid_.calls ELSE <<>>
             /\ returned' = [op |-> "setupTunnel", ret |-> TRUE]
             /\ IF IsValid(existing) /\ luid_.ret
                THEN StartObservingRun(GetAdapterLuid(existing.adapter_handle_))
                ELSE /\ delivered' = NoEvent
                     /\ UNCHANGED <<monitored_adapters_, notifications_registered_,
                                    interface_notification_handle_,
                                    os_subscriptions>>
             /\ UNCHANGED <<adapters_, libraries, handles_issued, close_count>>
     ELSE LET h == handles_issued + 1
              opened == WireguardAdapter_Open(libraries, wg_library_, name,
                                              IF answer = "opened" THEN h
                                              ELSE NullHandle)
              created == WireguardAdapter_Create(opened.libraries, wg_library_,
                                                 name,
                                                 IF answer = "created" THEN h
                                                 ELSE NullHandle)
              made == IF opened.ok THEN opened ELSE created
              calls == IF opened.ok THEN opened.calls
                       ELSE opened.calls \o created.calls
          IN IF ~made.ok
             THEN /\ driver_calls' = calls
                  /\ returned' = [op |-> "setupTunnel", ret |-> FALSE]
                  /\ libraries' = made.libraries
                  /\ close_count' = CountCloses(calls)
                  /\ delivered' = NoEvent
                  /\ UNCHANGED <<adapters_, handles_issued,
                                 monitored_adapters_, notifications_registered_,
                                 interface_notification_handle_,
                                 os_subscriptions>>
             ELSE LET luid_ == GetLUID(made.adapter, TRUE)
                  IN /\ driver_calls' =
                          calls \o [i \in 1..Len(luid_.calls) |->
                                      [luid_.calls[i] EXCEPT
                                         !.loaded = IsLoaded(made.libraries,
                                                             wg_library_)]]
                     /\ returned' = [op |-> "setupTunnel", ret |-> TRUE]
                     /\ libraries' = made.libraries
                     /\ close_count' = CountCloses(calls)
                     /\ handles_issued' = h
                     /\ adapters_' = Append(adapters_, made.adapter)
                     /\ IF luid_.ret
                        THEN StartObservingRun(GetAdapterLuid(h))
                        ELSE /\ delivered' = NoEvent
                             /\ UNCHANGED <<monitored_adapters_,
                                            notifications_registered_,
                                            interface_notification_handle_,
                                            os_subscriptions>>
  /\ UNCHANGED <<plugin_alive, wg_library_, dll_present, dll_exports, image_refs>>
  /\ UNCHANGED <<adapters_mutex_, sink_, pc, luid, handle_to_cancel, in_callback>>
  /\ UNCHANGED notPluginVars

\* An operation of adapters_[i] that changes nothing in the adapter.
AdapterCall(i, op, r) ==
  /\ plugin_alive
  /\ i \in 1..Len(adapters_)
  /\ driver_calls' = r.calls
  /\ returned' = [op |-> op, ret |-> r.ret]
  /\ UNCHANGED <<plugin_alive, wg_library_, adapters_, libraries, dll_present,
                 dll_exports, image_refs, handles_issued, close_count>>
  /\ UNCHANGED notAdapterVars

CallSetState(i, ok) ==
  /\ i \in 1..Len(adapters_)
  /\ AdapterCall(i, "SetState", SetState(adapters_[i], ok))

CallGetState(i, ok, state) ==
  /\ i \in 1..Len(adapters_)
  /\ AdapterCall(i, "GetState", GetState(adapters_[i], ok, state))

CallSetConfiguration(i, config, ok) ==
  /\ i \in 1..Len(adapters_)
  /\ AdapterCall(i, "SetConfiguration", SetConfiguration(adapters_[i], config, ok))

CallGetLUID(i, luid_out) ==
  /\ i \in 1..Len(adapters_)
  /\ AdapterCall(i, "GetLUID", GetLUID(adapters_[i], luid_out))

CallSetLogging(i, ok) ==
  /\ i \in 1..Len(adapters_)
  /\ AdapterCall(i, "SetLogging", SetLogging(adapters_[i], ok))

\* The build stage hands a buffer of the calculated size to the driver.
Builds(doc) == doc.parse /\ doc.size # 0 /\ doc.built = doc.size

CallApplyConfiguration(i, doc, set_ok, up_ok) ==
  /\ plugin_alive
  /\ i \in 1..Len(adapters_)
  \* the driver gives no answer to a call that is not made
  /\ ~Builds(doc) => ~set_ok
  /\ ~set_ok => ~up_ok
  /\ LET r == ApplyConfiguration(adapters_[i], doc, set_ok, up_ok)
     IN /\ driver_calls' = r.calls
        /\ returned' = [op |-> "ApplyConfiguration", ret |-> r.ret,
                        adapter |-> i, doc |-> doc, set_ok |-> set_ok,
                        up_ok |-> up_ok]
        /\ adapters_' = [adapters_ EXCEPT ![i].parsed_config_ = r.parsed_config_]
  /\ UNCHANGED <<plugin_alive, wg_library_, libraries, dll_present,
                 dll_exports, image_refs, handles_issued, close_count>>
  /\ UNCHANGED notAdapterVars

\* ~WireguardDartPlugin: StopAllObserving, then the members in reverse order
\* of declaration: adapters_, then wg_library_.
PluginDestructor ==
  /\ plugin_alive
  /\ adapters_mutex_ = NoThread
  /\ plugin_alive' = FALSE
  /\ StopAllObservingRun
  /\ LET gone == DestroyAdapters(libraries, adapters_)
         released == Release(gone.libraries, wg_library_)
     IN /\ driver_calls' = gone.calls
        /\ close_count' = CountCloses(gone.calls)
        /\ libraries' = released
        /\ image_refs' = image_refs - ImageFrees(libraries, released)
  /\ adapters_' = <<>>
  /\ wg_library_' = NullLibrary
  /\ returned' = NoEvent
  /\ UNCHANGED <<dll_present, dll_exports, handles_issued>>
  /\ UNCHANGED <<adapters_mutex_, sink_, pc, luid, handle_to_cancel, in_callback>>
  /\ UNCHANGED notPluginVars

AdapterStates == {"DOWN", "UP"}

NextAdapter ==
  \/ \E b \in BOOLEAN : OsDllPresent(b)
  \/ HandleNativeInit
  \/ \E name \in Names, answer \in SetupAnswers : HandleSetupTunnel(name, answer)
  \/ \E i \in Names, ok \in BOOLEAN : CallSetState(i, ok)
  \/ \E i \in Names, ok \in BOOLEAN, state \in AdapterStates :
       CallGetState(i, ok, state)
  \/ \E i \in Names, config, ok \in BOOLEAN : CallSetConfiguration(i, config, ok)
  \/ \E i \in Names, luid_out \in BOOLEAN : CallGetLUID(i, luid_out)
  \/ \E i \in Names, ok \in BOOLEAN : CallSetLogging(i, ok)
  \/ \E i \in Names, doc \in ParserAnswers, set_ok, up_ok \in BOOLEAN :
       CallApplyConfiguration(i, doc, set_ok, up_ok)
  \/ PluginDestructor

SpecAdapter == Init /\ [][NextAdapter]_vars


\* ------------------------------------------------------ WireguardNetworkConfig
\* CreateUnicastIpAddressEntry / CreateIpForwardEntry2 as the host answers:
\* a row that exists is reported, a new row is added unless the host refuses.
CreateEntry(table, key, refused) ==
  IF table[key] > 0
  THEN [result |-> "ERROR_OBJECT_ALREADY_EXISTS", table |-> table]
  ELSE IF refused
  THEN [result |-> "ERROR_ACCESS_DENIED", table |-> table]
  ELSE [result |-> "NO_ERROR", table |-> [table EXCEPT ![key] = @ + 1]]

\* Variant: only NO_ERROR counts as success.
CreateSucceeded_NoErrorOnly(result) == result = "NO_ERROR"

\* Variant: no result of a create ends the loop.
CreateSucceeded_Always(result) == TRUE

\* !(result != NO_ERROR && result != ERROR_OBJECT_ALREADY_EXISTS)
CreateSucceeded(result) ==
  result \in {"NO_ERROR", "ERROR_OBJECT_ALREADY_EXISTS"}

\* The loop of ConfigureIPAddresses / ConfigureRoutes from entry k on; the
\* host refuses the create of entry refused_at (0: of none).
RECURSIVE ConfigureEntries(_, _, _, _, _, _)
ConfigureEntries(fn, table, l, entries, k, refused_at) ==
  IF k > Len(entries) THEN [ret |-> TRUE, table |-> table, calls |-> <<>>]
  ELSE IF entries[k] \notin SupportedFamilies
  THEN ConfigureEntries(fn, table, l, entries, k + 1, refused_at)
  ELSE LET r == CreateEntry(table, <<l, entries[k]>>, k = refused_at)
           call == [fn |-> fn, luid |-> l, family |-> entries[k],
                    result |-> r.result]
       IN IF ~CreateSucceeded(r.result)
          THEN [ret |-> FALSE, table |-> r.table, calls |-> <<call>>]
          ELSE LET rest == ConfigureEntries(fn, r.table, l, entries, k + 1,
                                            refused_at)
               IN [ret |-> rest.ret, table |-> rest.table,
                   calls |-> <<call>> \o rest.calls]

ConfigureIPAddresses(table, l, addresses, refused_at) ==
  ConfigureEntries("CreateUnicastIpAddressEntry", table, l, addresses, 1,
                   refused_at)

ConfigureRoutes(table, l, allowed_ips, refused_at) ==
  ConfigureEntries("CreateIpForwardEntry2", table, l, allowed_ips, 1,
                   refused_at)

\* The rows of a table in the order the enumeration returns them.
TableRow(i) ==
  <<LinkOrder[((i - 1) \div Len(FamilyOrder)) + 1],
    FamilyOrder[((i - 1) % Len(FamilyOrder)) + 1]>>

\* What the host can answer to a delete.
DeleteResults == {"NO_ERROR", "ERROR_NOT_FOUND", "ERROR_ACCESS_DENIED"}

\* DeleteUnicastIpAddressEntry / DeleteIpForwardEntry2 as the host answers:
\* with ERROR_NOT_FOUND the row is gone already, with another error it stays.
DeleteEntry(table, key, result) ==
  IF result = "ERROR_ACCESS_DENIED" THEN table
  ELSE [table EXCEPT ![key] = 0]

\* Variant: a row that is gone already counts as a failed delete.
DeleteSucceeded_NoErrorOnly(result) == result = "NO_ERROR"

\* !(delete_result != NO_ERROR && delete_result != ERROR_NOT_FOUND)
DeleteSucceeded(result) == result \in {"NO_ERROR", "ERROR_NOT_FOUND"}

\* Variant: every row of the table is deleted, whatever its link.
RowMatches_AnyLink(row_luid, l) == TRUE

\* table->Table[i].InterfaceLuid.Value == luid_.Value
RowMatches(row_luid, l) == row_luid = l

\* The loop of RemoveIPAddresses / RemoveRoutes over the enumerated rows
\* from row i on; answers gives the host's answer to the delete per family.
RECURSIVE RemoveRows(_, _, _, _, _, _)
RemoveRows(fn, snapshot, table, l, i, answers) ==
  IF i > Cardinality(NetKeys) THEN [ret |-> TRUE, table |-> table, calls |-> <<>>]
  ELSE LET row == TableRow(i)
       IN IF snapshot[row] = 0 \/ ~RowMatches(row[1], l)
          THEN RemoveRows(fn, snapshot, table, l, i + 1, answers)
          ELSE LET result == answers[row[2]]
                   call == [fn |-> fn, luid |-> row[1], family |-> row[2],
                            result |-> result]
                   rest == RemoveRows(fn, snapshot,
                                      DeleteEntry(table, row, result), l, i + 1,
                                      answers)
               IN [ret |-> DeleteSucceeded(result) /\ rest.ret,
                   table |-> rest.table, calls |-> <<call>> \o rest.calls]

\* GetUnicastIpAddressTable / GetIpForwardTable2 over every link and family.
EnumerateCall(get, enumerated) ==
  [fn |-> get, luid |-> "AllLinks", family |-> "AF_UNSPEC",
   result |-> IF enumerated THEN "NO_ERROR" ELSE "ERROR_NOT_ENOUGH_MEMORY"]

\* enumerated: the host returns the table.
RemoveEntries(get, fn, table, l, enumerated, answers) ==
  IF ~enumerated
  THEN [ret |-> FALSE, table |-> table,
        calls |-> <<EnumerateCall(get, enumerated)>>]
  ELSE LET r == RemoveRows(fn, table, table, l, 1, answers)
       IN [r EXCEPT !.calls = <<EnumerateCall(get, enumerated)>> \o @]

RemoveIPAddresses(table, l, enumerated, answers) ==
  RemoveEntries("GetUnicastIpAddressTable", "DeleteUnicastIpAddressEntry",
                table, l, enumerated, answers)

RemoveRoutes(table, l, enumerated, answers) ==
  RemoveEntries("GetIpForwardTable2", "DeleteIpForwardEntry2",
                table, l, enumerated, answers)

\* The host can refuse a create it is asked for: refused_at names an entry
\* of the list that is not skipped.
CanRefuse(entries, refused_at) ==
  refused_at # 0 =>
    refused_at <= Len(entries) /\ entries[refused_at] \in SupportedFamilies

CallConfigureIPAddresses(l, addresses, refused_at) ==
  /\ CanRefuse(addresses, refused_at)
  /\ \E r \in {ConfigureIPAddresses(ip_table, l, addresses, refused_at)} :
       /\ ip_table' = r.table
       /\ net_calls' = Range(r.calls)
       /\ net_returned' =
            [op |-> "ConfigureIPAddresses", luid |-> l, ret |-> r.ret]
  /\ UNCHANGED route_table
  /\ UNCHANGED notNetVars

CallConfigureRoutes(l, allowed_ips, refused_at) ==
  /\ CanRefuse(allowed_ips, refused_at)
  /\ \E r \in {ConfigureRoutes(route_table, l, allowed_ips, refused_at)} :
       /\ route_table' = r.table
       /\ net_calls' = Range(r.calls)
       /\ net_returned' =
            [op |-> "ConfigureRoutes", luid |-> l, ret |-> r.ret]
  /\ UNCHANGED ip_table
  /\ UNCHANGED notNetVars

\* The host's answers when it is asked for no delete.
NoAnswers == [f \in SupportedFamilies |-> "NO_ERROR"]

\* The host answers the deletes it is asked for: those of the rows of link l
\* in an enumerated table.
AnswersAsked(table, l, enumerated, answers) ==
  \A f \in SupportedFamilies :
    (~enumerated \/ table[<<l, f>>] = 0) => answers[f] = NoAnswers[f]

CallRemoveIPAddresses(l, enumerated, answers) ==
  /\ AnswersAsked(ip_table, l, enumerated, answers)
  /\ \E r \in {RemoveIPAddresses(ip_table, l, enumerated, answers)} :
       /\ ip_table' = r.table
       /\ net_calls' = Range(r.calls)
       /\ net_returned' =
            [op |-> "RemoveIPAddresses", luid |-> l, ret |-> r.ret]
  /\ UNCHANGED route_table
  /\ UNCHANGED notNetVars

CallRemoveRoutes(l, enumerated, answers) ==
  /\ AnswersAsked(route_table, l, enumerated, answers)
  /\ \E r \in {RemoveRoutes(route_table, l, enumerated, answers)} :
       /\ route_table' = r.table
       /\ net_calls' = Range(r.calls)
       /\ net_returned' =
            [op |-> "RemoveRoutes", luid |-> l, ret |-> r.ret]
  /\ UNCHANGED ip_table
  /\ UNCHANGED notNetVars

NextNet ==
  \/ \E l \in NetLinks, addresses \in EntryLists, refused_at \in 0..MaxEntries :
       CallConfigureIPAddresses(l, addresses, refused_at)
  \/ \E l \in NetLinks, allowed_ips \in EntryLists, refused_at \in 0..MaxEntries :
       CallConfigureRoutes(l, allowed_ips, refused_at)
  \/ \E l \in NetLinks, enumerated \in BOOLEAN,
        answers \in [SupportedFamilies -> DeleteResults] :
       CallRemoveIPAddresses(l, enumerated, answers)
  \/ \E l \in NetLinks, enumerated \in BOOLEAN,
        answers \in [SupportedFamilies -> DeleteResults] :
       CallRemoveRoutes(l, enumerated, answers)

SpecNet == Init /\ [][NextNet]_vars


\* ------------------------------------------- WireguardConfigParser: texts
\* A text is modelled by the lexical shape its reader distinguishes.

\* Key tokens: whether base64_decode accepts the token and how many bytes it
\* writes to the output buffer; bytes names the content written.
EmptyText == [form |-> "empty"]
KeyA == [form |-> "base64", valid |-> TRUE, len |-> WIREGUARD_KEY_LENGTH,
         bytes |-> "KeyA"]
KeyB == [form |-> "base64", valid |-> TRUE, len |-> WIREGUARD_KEY_LENGTH,
         bytes |-> "KeyB"]
ShortKey == [form |-> "base64", valid |-> TRUE, len |-> WIREGUARD_KEY_LENGTH - 1,
             bytes |-> "ShortKey"]
LongKey == [form |-> "base64", valid |-> TRUE, len |-> WIREGUARD_KEY_LENGTH + 1,
            bytes |-> "LongKey"]
BadKey == [form |-> "base64", valid |-> FALSE, len |-> 0, bytes |-> "none"]
KeyTexts == {EmptyText, KeyA, KeyB, ShortKey, LongKey, BadKey}

\* Number texts: an optional minus sign, the value of the leading decimal
\* digits (digits FALSE: there are none; huge TRUE: they exceed ULONG_MAX),
\* and whether other characters follow.
Number(neg, digits, num, junk) ==
  [form |-> "number", neg |-> neg, digits |-> digits, huge |-> FALSE,
   num |-> num, junk |-> junk]

Decimal(num) == Number(FALSE, TRUE, num, FALSE)

HugeNumber == [Decimal(0) EXCEPT !.huge = TRUE]

NumberTexts ==
  {Decimal(0), Decimal(51820), Decimal(WordModulus - 1), Decimal(WordModulus),
   Decimal(WordModulus + 4464), HugeNumber,
   Number(TRUE, TRUE, 1, FALSE), Number(FALSE, TRUE, 80, TRUE),
   Number(FALSE, FALSE, 0, TRUE)}

\* Prefix lengths written after '/'.
CidrTexts ==
  {Decimal(0), Decimal(24), Decimal(128), Decimal(ByteModulus - 1),
   Decimal(ByteModulus), Decimal(ByteModulus + 44),
   Number(FALSE, FALSE, 0, TRUE)}

\* A text is a decimal number iff it is digits only.
IsDecimal(text) == text.form = "number" /\ text.digits /\ ~text.neg /\ ~text.junk

\* std::stoul: throws when there are no leading digits or they exceed
\* ULONG_MAX; the value is the digits' value, negated modulo ULONG_MAX + 1
\* after a minus sign (kept as sign and magnitude).
Stoul(text) ==
  IF text.form # "number" \/ ~text.digits \/ text.huge
  THEN [throws |-> TRUE, neg |-> FALSE, magnitude |-> 0]
  ELSE [throws |-> FALSE, neg |-> text.neg, magnitude |-> text.num]

\* The low bits of an unsigned long: modulus divides ULONG_MAX + 1.
LowBits(n, modulus) ==
  IF n.neg THEN (modulus - (n.magnitude % modulus)) % modulus
  ELSE n.magnitude % modulus

\* static_cast<WORD>
StaticCastWord(n) == LowBits(n, WordModulus)

\* static_cast<BYTE>
StaticCastByte(n) == LowBits(n, ByteModulus)

\* htons on a little-endian host.
Htons(port) == (port % ByteModulus) * ByteModulus + (port \div ByteModulus)

\* Address texts and the family inet_pton accepts them for.
AddressTexts == {"10.0.0.1", "fd00::1", "bogus"}

AddressFamilyOf(addr) ==
  CASE addr = "10.0.0.1" -> "AF_INET"
    [] addr = "fd00::1" -> "AF_INET6"
    [] OTHER -> "none"

\* inet_pton(family, addr) == 1
InetPton(family, addr) == AddressFamilyOf(addr) = family

\* An item of a comma-separated list: addr '/' cidr, or a text with no '/'.
Item(addr, cidr) == [slash |-> TRUE, addr |-> addr, cidr |-> cidr]
NoSlashItem == [slash |-> FALSE, addr |-> "bogus", cidr |-> Decimal(0)]

\* A comma-separated list, as SplitString returns its items.
List(items) == [form |-> "list", items |-> items]

\* An endpoint text: bracketed or not, whether the separating ':' is found
\* where the reader looks for it, the host and the port.
Endpoint(bracket, separated, host, port) ==
  [form |-> "endpoint", bracket |-> bracket, separated |-> separated,
   host |-> host, port |-> port]

\* --------------------------------------- WireguardConfigParser: documents
\* A line after TrimString: a section header "[name]", an empty or comment
\* line, a line "key = value", or another line with no '='.
Header(name) == [kind |-> "header", name |-> name]
CommentLine == [kind |-> "comment"]
TextLine == [kind |-> "text"]
Pair(key, value) == [kind |-> "pair", key |-> key, value |-> value]

\* ParsedInterface{} and a default-initialised ParsedPeer: the arrays of the
\* first are zeroed, those of the second and its endpoint are not set.
EmptyInterface ==
  [has_private_key |-> FALSE, has_public_key |-> FALSE,
   has_listen_port |-> FALSE, private_key |-> "zero", public_key |-> "zero",
   listen_port |-> 0, addresses |-> <<>>]

NewPeer ==
  [has_public_key |-> FALSE, has_preshared_key |-> FALSE,
   has_persistent_keepalive |-> FALSE, has_endpoint |-> FALSE,
   public_key |-> "uninit", preshared_key |-> "uninit",
   persistent_keepalive |-> 0, endpoint |-> "uninit", allowed_ips |-> <<>>]

\* DecodeBase64Key: ret, what the key buffer holds afterwards, and whether
\* base64_decode wrote past the WIREGUARD_KEY_LENGTH bytes of the buffer.
DecodeBase64Key(base64_key, key_buffer) ==
  IF base64_key.form # "base64"
  THEN [ret |-> FALSE, key_buffer |-> key_buffer, overflow |-> FALSE]
  ELSE [ret |-> base64_key.valid /\ base64_key.len = WIREGUARD_KEY_LENGTH,
        key_buffer |-> IF base64_key.len = 0 THEN key_buffer
                       ELSE base64_key.bytes,
        overflow |-> base64_key.len > WIREGUARD_KEY_LENGTH]

\* ParseIPAddress: the prefix length is cast to a byte before the address is
\* looked at.
ParseIPAddress(item) ==
  IF ~item.slash THEN [ret |-> FALSE]
  ELSE LET cidr == Stoul(item.cidr)
       IN IF cidr.throws THEN [ret |-> FALSE]
          ELSE IF InetPton("AF_INET", item.addr)
          THEN [ret |-> TRUE, AddressFamily |-> "AF_INET",
                Address |-> item.addr, Cidr |-> StaticCastByte(cidr)]
          ELSE IF InetPton("AF_INET6", item.addr)
          THEN [ret |-> TRUE, AddressFamily |-> "AF_INET6",
                Address |-> item.addr, Cidr |-> StaticCastByte(cidr)]
          ELSE [ret |-> FALSE]

AllowedIp(r) ==
  [AddressFamily |-> r.AddressFamily, Address |-> r.Address, Cidr |-> r.Cidr]

\* The loop over the items of Address / AllowedIPs: the items before a
\* failing one have been pushed.
RECURSIVE ParseIPList(_, _, _)
ParseIPList(items, k, list) ==
  IF k > Len(items) THEN [ret |-> TRUE, list |-> list]
  ELSE LET r == ParseIPAddress(items[k])
       IN IF r.ret THEN ParseIPList(items, k + 1, Append(list, AllowedIp(r)))
          ELSE [ret |-> FALSE, list |-> list]

ListItems(value) ==
  IF value.form = "list" THEN value.items
  ELSE IF value.form = "empty" THEN <<>>
  ELSE <<NoSlashItem>>

\* ParseEndpoint
ParseEndpoint(endpoint_str) ==
  IF endpoint_str.form # "endpoint" \/ ~endpoint_str.separated
  THEN [ret |-> FALSE]
  ELSE LET port == Stoul(endpoint_str.port)
       IN IF port.throws THEN [ret |-> FALSE]
          ELSE IF InetPton("AF_INET", endpoint_str.host)
          THEN [ret |-> TRUE,
                endpoint |-> [si_family |-> "AF_INET", addr |-> endpoint_str.host,
                              port |-> Htons(StaticCastWord(port))]]
          ELSE IF InetPton("AF_INET6", endpoint_str.host)
          THEN [ret |-> TRUE,
                endpoint |-> [si_family |-> "AF_INET6", addr |-> endpoint_str.host,
                              port |-> Htons(StaticCastWord(port))]]
          ELSE [ret |-> FALSE]

\* ParseKeyValue(key, value, ParsedInterface&)
ParseInterfaceKeyValue(key, value, iface) ==
  CASE key = "PrivateKey" ->
         LET d == DecodeBase64Key(value, iface.private_key)
         IN [ret |-> d.ret, overflow |-> d.overflow,
             target |-> [iface EXCEPT !.private_key = d.key_buffer,
                                      !.has_private_key = @ \/ d.ret]]
    [] key = "PublicKey" ->
         LET d == DecodeBase64Key(value, iface.public_key)
         IN [ret |-> d.ret, overflow |-> d.overflow,
             target |-> [iface EXCEPT !.public_key = d.key_buffer,
                                      !.has_public_key = @ \/ d.ret]]
    [] key = "ListenPort" ->
         LET n == Stoul(value)
         IN IF n.throws
            THEN [ret |-> FALSE, overflow |-> FALSE, target |-> iface]
            ELSE [ret |-> TRUE, overflow |-> FALSE,
                  target |-> [iface EXCEPT !.listen_port = StaticCastWord(n),
                                           !.has_listen_port = TRUE]]
    [] key = "Address" ->
         LET r == ParseIPList(ListItems(value), 1, iface.addresses)
         IN [ret |-> r.ret, overflow |-> FALSE,
             target |-> [iface EXCEPT !.addresses = r.list]]
    [] OTHER -> [ret |-> TRUE, overflow |-> FALSE, target |-> iface]

\* ParseKeyValue(key, value, ParsedPeer&)
ParsePeerKeyValue(key, value, peer) ==
  CASE key = "PublicKey" ->
         LET d == DecodeBase64Key(value, peer.public_key)
         IN [ret |-> d.ret, overflow |-> d.overflow,
             target |-> [peer EXCEPT !.public_key = d.key_buffer,
                                     !.has_public_key = @ \/ d.ret]]
    [] key = "PresharedKey" ->
         LET d == DecodeBase64Key(value, peer.preshared_key)
         IN [ret |-> d.ret, overflow |-> d.overflow,
             target |-> [peer EXCEPT !.preshared_key = d.key_buffer,
                                     !.has_preshared_key = @ \/ d.ret]]
    [] key = "PersistentKeepalive" ->
         LET n == Stoul(value)
         IN IF n.throws
            THEN [ret |-> FALSE, overflow |-> FALSE, target |-> peer]
            ELSE [ret |-> TRUE, overflow |-> FALSE,
                  target |-> [peer EXCEPT
                                !.persistent_keepalive = StaticCastWord(n),
                                !.has_persistent_keepalive = TRUE]]
    [] key = "Endpoint" ->
         LET r == ParseEndpoint(value)
         IN IF r.ret
            THEN [ret |-> TRUE, overflow |-> FALSE,
                  target |-> [peer EXCEPT !.endpoint = r.endpoint,
                                          !.has_endpoint = TRUE]]
            ELSE [ret |-> FALSE, overflow |-> FALSE, target |-> peer]
    [] key = "AllowedIPs" ->
         LET r == ParseIPList(ListItems(value), 1, peer.allowed_ips)
         IN [ret |-> r.ret, overflow |-> FALSE,
             target |-> [peer EXCEPT !.allowed_ips = r.list]]
    [] OTHER -> [ret |-> TRUE, overflow |-> FALSE, target |-> peer]

ParseKeyValue(section, key, value, target) ==
  IF section = "Interface" THEN ParseInterfaceKeyValue(key, value, target)
  ELSE ParsePeerKeyValue(key, value, target)

\* The loop of ParseInterfaceSection / ParsePeerSection over the lines of a
\* section from line k on: lines with no '=' are skipped, the first key whose
\* value is refused ends the loop.
RECURSIVE ParseSectionLines(_, _, _, _)

\* if (!ParseKeyValue(key, value, target)) return false;
AfterKeyValue(r, section, content, k) ==
  IF ~r.ret THEN r ELSE ParseSectionLines(section, content, k + 1, r.target)

ParseSectionLines(section, content, k, target) ==
  IF k > Len(content) THEN [ret |-> TRUE, overflow |-> FALSE, target |-> target]
  ELSE IF content[k].kind # "pair"
  THEN ParseSectionLines(section, content, k + 1, target)
  ELSE AfterKeyValue(ParseKeyValue(section, content[k].key, content[k].value,
                                   target),
                     section, content, k)

\* Variant: the new peer is put in front of the earlier ones.
PushBack_Front(peers, peer) == <<peer>> \o peers

\* peers_.push_back(peer)
PushBack(peers, peer) == Append(peers, peer)

\* What the parser holds after a section's loop returned r:
\* ParseInterfaceSection works on interface_ itself, ParsePeerSection on a
\* local peer that is appended only when every key was accepted.
SectionParsed(current_section, parser, r) ==
  [ret |-> r.ret, overflow |-> r.overflow,
   parser |-> IF current_section = "Interface"
              THEN [parser EXCEPT !.interface_ = r.target]
              ELSE IF r.ret
              THEN [parser EXCEPT !.peers_ = PushBack(@, r.target)]
              ELSE parser]

\* The dispatch of Parse on current_section; a section of another name is
\* not parsed.
ParseSection(current_section, section_content, parser) ==
  IF current_section \in {"Interface", "Peer"}
  THEN SectionParsed(current_section, parser,
                     ParseSectionLines(current_section, section_content, 1,
                                       IF current_section = "Interface"
                                       THEN parser.interface_ ELSE NewPeer))
  ELSE [ret |-> TRUE, overflow |-> FALSE, parser |-> parser]

\* Clear()
Cleared == [interface_ |-> EmptyInterface, peers_ |-> <<>>]

\* The loop of Parse from line k on; current_section is "" before the first
\* header.
RECURSIVE ParseLines(_, _, _, _, _)

\* The section read so far is parsed at a header and at the end of the text;
\* a refused section ends Parse.
AfterSection(r, lines, k) ==
  IF ~r.ret \/ k > Len(lines) THEN r
  ELSE ParseLines(lines, k + 1, lines[k].name, <<>>, r.parser)

ParseLines(lines, k, current_section, section_content, parser) ==
  IF k <= Len(lines) /\ lines[k].kind = "comment"
  THEN ParseLines(lines, k + 1, current_section, section_content, parser)
  ELSE IF k <= Len(lines) /\ lines[k].kind # "header"
  THEN ParseLines(lines, k + 1, current_section,
                  Append(section_content, lines[k]), parser)
  ELSE AfterSection(IF current_section # ""
                    THEN ParseSection(current_section, section_content, parser)
                    ELSE [ret |-> TRUE, overflow |-> FALSE, parser |-> parser],
                    lines, k)

\* Parse(config_text)
Parse(config_text) == ParseLines(config_text, 1, "", <<>>, Cleared)


\* ----------------------------------------- WireguardConfigParser: inputs
\* The lines the longer documents are made of.
CoreLines ==
  {Header("Interface"), Header("Peer"), Header("Other"), CommentLine, TextLine,
   Pair("PublicKey", KeyA), Pair("ListenPort", Decimal(51820)),
   Pair("PrivateKey", ShortKey),
   Pair("AllowedIPs", List(<<Item("10.0.0.1", Decimal(24)),
                             Item("fd00::1", Decimal(128))>>))}

\* The values a key is given in the two-line documents.
ItemTexts ==
  {Item(addr, cidr) : addr \in AddressTexts, cidr \in CidrTexts}
    \cup {NoSlashItem}

ListTexts ==
  {EmptyText} \cup {List(<<item>>) : item \in ItemTexts}
    \cup {List(<<Item("10.0.0.1", Decimal(24)), item>>) : item \in ItemTexts}

EndpointTexts ==
  {EmptyText}
    \cup {Endpoint(bracket, TRUE, host, port) :
            bracket \in BOOLEAN, host \in AddressTexts, port \in NumberTexts}
    \cup {Endpoint(bracket, FALSE, "10.0.0.1", Decimal(51820)) :
            bracket \in BOOLEAN}

KeyNames ==
  {"PrivateKey", "PublicKey", "PresharedKey", "ListenPort",
   "PersistentKeepalive", "Address", "AllowedIPs", "Endpoint", "MTU"}

ValueTexts(key) ==
  CASE key \in {"PrivateKey", "PublicKey", "PresharedKey"} -> KeyTexts
    [] key \in {"ListenPort", "PersistentKeepalive"} ->
         NumberTexts \cup {EmptyText}
    [] key \in {"Address", "AllowedIPs"} -> ListTexts
    [] key = "Endpoint" -> EndpointTexts
    [] OTHER -> {EmptyText}

\* Documents: every sequence of at most MaxLines core lines, every key with
\* every value of its kind as the only line of a section, and every key
\* token as the second value of a key that was given KeyA first.
Documents ==
  UNION {[1..n -> CoreLines] : n \in 0..MaxLines}
    \cup UNION {{<<Header(section), Pair(key, value)>> :
                   section \in {"Interface", "Peer"}, value \in ValueTexts(key)} :
                 key \in KeyNames}
    \cup {<<Header(section), Pair(key, KeyA), Pair(key, value)>> :
            section \in {"Interface", "Peer"},
            key \in {"PrivateKey", "PublicKey", "PresharedKey"},
            value \in KeyTexts}


\* ---------------------------------- WireguardConfigParser: configuration
\* CalculateConfigurationSize from peer k on.
RECURSIVE PeersSize(_, _)
PeersSize(peers, k) ==
  IF k > Len(peers) THEN 0
  ELSE SizeofPeer + Len(peers[k].allowed_ips) * SizeofAllowedIp
         + PeersSize(peers, k + 1)

CalculateConfigurationSize(peers) == SizeofInterface + PeersSize(peers, 1)

\* Variant: the bit is set whether the field is present or not.
HasBit_Always(present, bit) == {bit}

\* if (has_field) Flags |= bit
HasBit(present, bit) == IF present THEN {bit} ELSE {}

\* A buffer is the sequence of the blocks written to it, each with the
\* offset of its first byte; a field the code does not write after
\* ZeroMemory is "zero".
InterfaceBlock(iface, peers, current_pos) ==
  [type |-> "WIREGUARD_INTERFACE", offset |-> current_pos,
   size |-> SizeofInterface,
   Flags |-> {"REPLACE_PEERS"}
               \cup HasBit(iface.has_private_key, "HAS_PRIVATE_KEY")
               \cup HasBit(iface.has_public_key, "HAS_PUBLIC_KEY")
               \cup HasBit(iface.has_listen_port, "HAS_LISTEN_PORT"),
   PrivateKey |-> IF iface.has_private_key THEN iface.private_key ELSE "zero",
   PublicKey |-> IF iface.has_public_key THEN iface.public_key ELSE "zero",
   ListenPort |-> IF iface.has_listen_port THEN iface.listen_port ELSE 0,
   PeersCount |-> Len(peers)]

PeerBlock(parsed_peer, current_pos) ==
  [type |-> "WIREGUARD_PEER", offset |-> current_pos, size |-> SizeofPeer,
   Flags |-> {"REPLACE_ALLOWED_IPS"}
               \cup HasBit(parsed_peer.has_public_key, "HAS_PUBLIC_KEY")
               \cup HasBit(parsed_peer.has_preshared_key, "HAS_PRESHARED_KEY")
               \cup HasBit(parsed_peer.has_persistent_keepalive, "HAS_PERSISTENT_KEEPALIVE")
               \cup HasBit(parsed_peer.has_endpoint, "HAS_ENDPOINT"),
   PublicKey |-> IF parsed_peer.has_public_key
                 THEN parsed_peer.public_key ELSE "zero",
   PresharedKey |-> IF parsed_peer.has_preshared_key
                    THEN parsed_peer.preshared_key ELSE "zero",
   PersistentKeepalive |-> IF parsed_peer.has_persistent_keepalive
                           THEN parsed_peer.persistent_keepalive ELSE 0,
   Endpoint |-> IF parsed_peer.has_endpoint THEN parsed_peer.endpoint ELSE "zero",
   AllowedIPsCount |-> Len(parsed_peer.allowed_ips)]

AllowedIpBlock(allowed_ip, current_pos) ==
  [type |-> "WIREGUARD_ALLOWED_IP", offset |-> current_pos,
   size |-> SizeofAllowedIp, AllowedIp |-> allowed_ip]

\* Variant: the allowed-IP records of a peer are written last first.
AllowedIpBlocks_Reversed(allowed_ips, current_pos) ==
  [n \in 1..Len(allowed_ips) |->
     AllowedIpBlock(allowed_ips[Len(allowed_ips) + 1 - n],
                    current_pos + (n - 1) * SizeofAllowedIp)]

\* for (const auto& allowed_ip : parsed_peer.allowed_ips)
AllowedIpBlocks(allowed_ips, current_pos) ==
  [n \in 1..Len(allowed_ips) |->
     AllowedIpBlock(allowed_ips[n], current_pos + (n - 1) * SizeofAllowedIp)]

\* for (const auto& parsed_peer : peers_), from peer k on.
RECURSIVE PeerBlocks(_, _, _)
PeerBlocks(peers, k, current_pos) ==
  IF k > Len(peers) THEN [buffer |-> <<>>, current_pos |-> current_pos]
  ELSE LET ips == AllowedIpBlocks(peers[k].allowed_ips, current_pos + SizeofPeer)
           rest == PeerBlocks(peers, k + 1,
                              current_pos + SizeofPeer
                                + Len(ips) * SizeofAllowedIp)
       IN [buffer |-> <<PeerBlock(peers[k], current_pos)>> \o ips \o rest.buffer,
           current_pos |-> rest.current_pos]

\* Variant: the buffer is written whatever its size.
TooSmall_Never(buffer_size, required_size) == FALSE

\* buffer_size < required_size
TooSmall(buffer_size, required_size) == buffer_size < required_size

\* BuildConfiguration: what it returns, the blocks it wrote and where the
\* write cursor ends.
BuildConfiguration(iface, peers, buffer_size) ==
  LET required_size == CalculateConfigurationSize(peers)
  IN IF TooSmall(buffer_size, required_size)
     THEN [ret |-> 0, buffer |-> <<>>, current_pos |-> 0]
     ELSE LET rest == PeerBlocks(peers, 1, SizeofInterface)
          IN [ret |-> required_size,
              buffer |-> <<InterfaceBlock(iface, peers, 0)>> \o rest.buffer,
              current_pos |-> rest.current_pos]

\* ---------------------------------------- WireguardConfigParser: actions
\* What can follow a write past the end of a key buffer.
OverflowOutcomes == {"returns", "crashes"}

\* WireguardConfigParser parser; parser.Parse(config_text): every parser
\* object of the program is given one document.
CallParse(config_text, outcome) ==
  /\ parser_returned = NoEvent
  /\ \E r \in {Parse(config_text)} :
       /\ outcome = "crashes" => r.overflow
       /\ interface_' = r.parser.interface_
       /\ peers_' = r.parser.peers_
       /\ parser_returned' =
            [op |-> "Parse", config_text |-> config_text, ret |-> r.ret,
             overflow |-> r.overflow, crashed |-> outcome = "crashes"]
  /\ UNCHANGED buffer
  /\ UNCHANGED notParserVars

\* The buffer sizes BuildConfiguration is called with: one byte less than,
\* exactly, and one byte more than the calculated size.
BufferSizes(required_size) ==
  {required_size - 1, required_size, required_size + 1}

\* parser.BuildConfiguration(buffer, buffer_size) after a successful Parse.
CallBuildConfiguration(buffer_size) ==
  /\ parser_returned # NoEvent
  /\ parser_returned.op = "Parse"
  /\ parser_returned.ret
  /\ \E r \in {BuildConfiguration(interface_, peers_, buffer_size)} :
       /\ buffer' = r.buffer
       /\ parser_returned' =
            [op |-> "BuildConfiguration", buffer_size |-> buffer_size,
             ret |-> r.ret, current_pos |-> r.current_pos]
  /\ UNCHANGED <<interface_, peers_>>
  /\ UNCHANGED notParserVars

NextParser ==
  \/ /\ parser_returned = NoEvent
     /\ \E config_text \in Documents, outcome \in OverflowOutcomes :
          CallParse(config_text, outcome)
  \/ \E buffer_size \in BufferSizes(CalculateConfigurationSize(peers_)) :
       CallBuildConfiguration(buffer_size)

SpecParser == Init /\ [][NextParser]_vars


\* ------------------------------------------------------- HandleDisconnect
\* The row of the host's tables that belongs to link id l.
NetLinkOf(l) == LinkOrder[((l - 1) % Len(LinkOrder)) + 1]

\* RemoveAdapterIPAddresses / RemoveRoutesForAdapter of the plugin: the same
\* loops as those of WireguardNetworkConfig.
RemoveAdapterIPAddresses(table, l, enumerated, answers) ==
  RemoveEntries("GetUnicastIpAddressTable", "DeleteUnicastIpAddressEntry",
                table, l, enumerated, answers)

RemoveRoutesForAdapter(table, l, enumerated, answers) ==
  RemoveEntries("GetIpForwardTable2", "DeleteIpForwardEntry2",
                table, l, enumerated, answers)

\* StopObserving(l) run from the plugin's thread with no other thread in the
\* observer and no callback in flight.
StopObservingRun(l) ==
  LET remaining == SelectSeq(monitored_adapters_, LAMBDA m : m # l)
      last == remaining = <<>> /\ GetMonitoredAdapter(l)
                /\ notifications_registered_
  IN /\ monitored_adapters_' = remaining
     /\ notifications_registered_' = (notifications_registered_ /\ ~last)
     /\ interface_notification_handle_' =
          IF last THEN NullHandle ELSE interface_notification_handle_
     /\ os_subscriptions' =
          IF last THEN os_subscriptions \ {interface_notification_handle_}
          ELSE os_subscriptions
     /\ delivered' = NoEvent

\* Variant: the handler goes on whatever SetState returned.
DisconnectProceeds_Always(r) == TRUE

\* !target_adapter->SetState(WIREGUARD_ADAPTER_STATE_DOWN) returns early.
DisconnectProceeds(r) == r.ret

Step(name, ret) == [step |-> name, ret |-> ret]

DisconnectResult(ok, code) == [op |-> "disconnect", ret |-> ok, code |-> code]

\* What a step of the handler leaves alone in the plugin and the observer.
HandlerKeepsPlugin ==
  UNCHANGED <<plugin_alive, wg_library_, adapters_, libraries, dll_present,
              dll_exports, image_refs, handles_issued, close_count>>

HandlerKeepsThreads ==
  UNCHANGED <<adapters_mutex_, sink_, pc, luid, handle_to_cancel, in_callback>>

\* HandleDisconnect up to the checks of the adapter.
HandleDisconnectFind(name) ==
  /\ plugin_alive
  /\ disconnect_pc = "idle"
  /\ flow' = <<>>
  /\ driver_calls' = <<>>
  /\ IF FindAdapterByName(name) = {}
     THEN /\ returned' = DisconnectResult(FALSE, "ADAPTER_NOT_FOUND")
          /\ UNCHANGED <<disconnect_pc, target_adapter>>
     ELSE LET i == CHOOSE i \in FindAdapterByName(name) :
                     \A j \in FindAdapterByName(name) : i <= j
          IN IF ~IsValid(adapters_[i])
             THEN /\ returned' = DisconnectResult(FALSE, "ADAPTER_INVALID")
                  /\ UNCHANGED <<disconnect_pc, target_adapter>>
             ELSE /\ returned' = NoEvent
                  /\ target_adapter' = i
                  /\ disconnect_pc' = "set_state"
  /\ HandlerKeepsPlugin
  /\ UNCHANGED <<observerVars, statusVars, netVars, parserVars, raceVars>>

\* target_adapter->SetState(WIREGUARD_ADAPTER_STATE_DOWN)
HandleDisconnectSetState(ok) ==
  /\ disconnect_pc = "set_state"
  /\ Unusable(adapters_[target_adapter]) => ~ok
  /\ LET r == SetState(adapters_[target_adapter], ok)
     IN /\ driver_calls' = r.calls
        /\ flow' = Append(flow, Step("SetState(DOWN)", r.ret))
        /\ IF DisconnectProceeds(r)
           THEN /\ disconnect_pc' = "get_luid"
                /\ returned' = NoEvent
           ELSE /\ disconnect_pc' = "idle"
                /\ returned' = DisconnectResult(FALSE, "ADAPTER_STATE_FAILED")
  /\ UNCHANGED target_adapter
  /\ HandlerKeepsPlugin
  /\ UNCHANGED <<observerVars, statusVars, netVars, parserVars, raceVars>>

\* target_adapter->GetLUID(&luid): the handler passes the address of a local.
HandleDisconnectGetLUID ==
  /\ disconnect_pc = "get_luid"
  /\ LET r == GetLUID(adapters_[target_adapter], TRUE)
     IN /\ driver_calls' = r.calls
        /\ flow' = Append(flow, Step("GetLUID", r.ret))
        /\ IF r.ret
           THEN /\ disconnect_pc' = "remove_addresses"
                /\ returned' = NoEvent
           ELSE /\ disconnect_pc' = "idle"
                /\ returned' = DisconnectResult(TRUE, "Success")
  /\ UNCHANGED target_adapter
  /\ HandlerKeepsPlugin
  /\ UNCHANGED <<observerVars, statusVars, netVars, parserVars, raceVars>>

DisconnectLuid == GetAdapterLuid(adapters_[target_adapter].adapter_handle_)

\* RemoveAdapterIPAddresses(luid); a failure is logged and the handler goes on.
HandleDisconnectRemoveAddresses(enumerated, answers) ==
  /\ disconnect_pc = "remove_addresses"
  /\ AnswersAsked(ip_table, NetLinkOf(DisconnectLuid), enumerated, answers)
  /\ LET r == RemoveAdapterIPAddresses(ip_table, NetLinkOf(DisconnectLuid),
                                       enumerated, answers)
     IN /\ ip_table' = r.table
        /\ net_calls' = Range(r.calls)
        /\ net_returned' = [op |-> "RemoveAdapterIPAddresses",
                            luid |-> NetLinkOf(DisconnectLuid), ret |-> r.ret]
        /\ flow' = Append(flow, Step("RemoveAdapterIPAddresses", r.ret))
  /\ disconnect_pc' = "remove_routes"
  /\ driver_calls' = <<>>
  /\ UNCHANGED <<target_adapter, returned, route_table>>
  /\ HandlerKeepsPlugin
  /\ UNCHANGED <<observerVars, statusVars, parserVars, raceVars>>

\* RemoveRoutesForAdapter(luid); a failure is logged and the handler goes on.
HandleDisconnectRemoveRoutes(enumerated, answers) ==
  /\ disconnect_pc = "remove_routes"
  /\ AnswersAsked(route_table, NetLinkOf(DisconnectLuid), enumerated, answers)
  /\ LET r == RemoveRoutesForAdapter(route_table, NetLinkOf(DisconnectLuid),
                                     enumerated, answers)
     IN /\ route_table' = r.table
        /\ net_calls' = Range(r.calls)
        /\ net_returned' = [op |-> "RemoveRoutesForAdapter",
                            luid |-> NetLinkOf(DisconnectLuid), ret |-> r.ret]
        /\ flow' = Append(flow, Step("RemoveRoutesForAdapter", r.ret))
  /\ disconnect_pc' = "stop_observing"
  /\ driver_calls' = <<>>
  /\ UNCHANGED <<target_adapter, returned, ip_table>>
  /\ HandlerKeepsPlugin
  /\ UNCHANGED <<observerVars, statusVars, parserVars, raceVars>>

\* network_adapter_observer_->StopObserving(luid); result->Success()
HandleDisconnectStopObserving ==
  /\ disconnect_pc = "stop_observing"
  /\ adapters_mutex_ = NoThread
  /\ StopObservingRun(DisconnectLuid)
  /\ flow' = Append(flow, Step("StopObserving", TRUE))
  /\ disconnect_pc' = "idle"
  /\ driver_calls' = <<>>
  /\ returned' = DisconnectResult(TRUE, "Success")
  /\ UNCHANGED target_adapter
  /\ HandlerKeepsPlugin
  /\ HandlerKeepsThreads
  /\ UNCHANGED <<statusVars, netVars, parserVars, raceVars>>

\* The method calls arrive on one thread: no handler starts inside another.
NextDisconnect ==
  \/ disconnect_pc = "idle" /\ HandleNativeInit
  \/ /\ disconnect_pc = "idle"
     /\ \E name \in Names, answer \in SetupAnswers :
          HandleSetupTunnel(name, answer)
  \/ \E name \in Names : HandleDisconnectFind(name)
  \/ \E ok \in BOOLEAN : HandleDisconnectSetState(ok)
  \/ HandleDisconnectGetLUID
  \/ \E enumerated \in BOOLEAN, answers \in [SupportedFamilies -> DeleteResults] :
       HandleDisconnectRemoveAddresses(enumerated, answers)
  \/ \E enumerated \in BOOLEAN, answers \in [SupportedFamilies -> DeleteResults] :
       HandleDisconnectRemoveRoutes(enumerated, answers)
  \/ HandleDisconnectStopObserving

SpecDisconnect == Init /\ [][NextDisconnect]_vars


\* ---------------------------------------------------------- HandleConnect
\* The configuration texts connect is called with, by what the parser makes
\* of them: whether they parse and build, the interface's addresses and each
\* peer's allowed IPs.
ConnectDocs ==
  {[parse |-> FALSE, size |-> 0, built |-> 0],
   [parse |-> TRUE, size |-> 1, built |-> 1]}

ConnectAddresses == {<<>>, <<"AF_INET", "AF_IPX", "AF_INET6">>}

ConnectPeers == {<<>>, <<<<"AF_INET">>, <<>>, <<"AF_IPX", "AF_INET6">>>>}

ConnectTexts ==
  [doc : ConnectDocs, addresses : ConnectAddresses, peers : ConnectPeers]

\* ConfigureAdapterIPAddress / AddRouteForAllowedIPs of the plugin: the same
\* loops as those of WireguardNetworkConfig.
ConfigureAdapterIPAddress(table, l, addresses, refused_at) ==
  ConfigureEntries("CreateUnicastIpAddressEntry", table, l, addresses, 1,
                   refused_at)

AddRouteForAllowedIPs(table, l, allowed_ips, refused_at) ==
  ConfigureEntries("CreateIpForwardEntry2", table, l, allowed_ips, 1,
                   refused_at)

\* The first entry of a list that is not skipped, 0 if there is none.
FirstAttempted(entries) ==
  IF \E k \in 1..Len(entries) : entries[k] \in SupportedFamilies
  THEN CHOOSE k \in 1..Len(entries) :
         /\ entries[k] \in SupportedFamilies
         /\ \A j \in 1..(k - 1) : entries[j] \notin SupportedFamilies
  ELSE 0

\* The loop over the peers from peer k on: the host refuses the first create
\* of the peers in refused. A failure is logged and the loop goes on.
RECURSIVE ConnectRoutes(_, _, _, _, _)

AfterPeerRoutes(r, l, peers, k, refused) ==
  [ConnectRoutes(r.table, l, peers, k + 1, refused) EXCEPT
     !.calls = r.calls \o @,
     !.flow = <<Step("AddRouteForAllowedIPs", r.ret)>> \o @]

ConnectRoutes(table, l, peers, k, refused) ==
  IF k > Len(peers) THEN [table |-> table, calls |-> <<>>, flow |-> <<>>]
  ELSE IF peers[k] = <<>> THEN ConnectRoutes(table, l, peers, k + 1, refused)
  ELSE AfterPeerRoutes(AddRouteForAllowedIPs(table, l, peers[k],
                                             IF k \in refused
                                             THEN FirstAttempted(peers[k])
                                             ELSE 0),
                       l, peers, k, refused)

\* Variant: a failed address install is logged and the handler goes on.
AddressesProceed_Always(r) == TRUE

\* if (!ConfigureAdapterIPAddress(luid, interface_config.addresses)) return
AddressesProceed(r) == r.ret

ConnectResult(ok, code, l) ==
  [op |-> "connect", ret |-> ok, code |-> code, luid |-> l]

\* What a connect that ends before the network configuration leaves behind.
ConnectEnds(code, applied, steps) ==
  [code |-> code, parsed_config_ |-> applied.parsed_config_,
   driver_calls |-> applied.calls, ip_table |-> ip_table,
   route_table |-> route_table, net_calls |-> <<>>, flow |-> steps]

\* The part of HandleConnect after the addresses were installed.
AfterAddresses(r, applied, l, cfg, refused) ==
  IF ~AddressesProceed(r)
  THEN [ConnectEnds("IP_CONFIGURATION_FAILED", applied,
                    <<Step("ApplyConfiguration", TRUE),
                      Step("ConfigureAdapterIPAddress", FALSE)>>)
          EXCEPT !.ip_table = r.table, !.net_calls = r.calls]
  ELSE [code |-> "Success", parsed_config_ |-> applied.parsed_config_,
        driver_calls |-> applied.calls, ip_table |-> r.table,
        route_table |-> ConnectRoutes(route_table, l, cfg.peers, 1, refused).table,
        net_calls |-> r.calls
                        \o ConnectRoutes(route_table, l, cfg.peers, 1, refused).calls,
        flow |-> <<Step("ApplyConfiguration", TRUE)>>
                   \o (IF cfg.addresses # <<>>
                       THEN <<Step("ConfigureAdapterIPAddress", r.ret)>>
                       ELSE <<>>)
                   \o ConnectRoutes(route_table, l, cfg.peers, 1, refused).flow]

\* The part of HandleConnect after ApplyConfiguration returned: the second
\* parse of the same text, GetLUID and the network configuration.
AfterApply(applied, a, cfg, addr_refused_at, refused) ==
  IF ~applied.ret
  THEN ConnectEnds("CONFIGURATION_FAILED", applied,
                   <<Step("ApplyConfiguration", FALSE)>>)
  ELSE IF ~cfg.doc.parse
  THEN ConnectEnds("CONFIGURATION_PARSE_FAILED", applied,
                   <<Step("ApplyConfiguration", TRUE)>>)
  ELSE IF ~GetLUID(a, TRUE).ret
  THEN ConnectEnds("Success", applied, <<Step("ApplyConfiguration", TRUE)>>)
  ELSE AfterAddresses(
         IF cfg.addresses # <<>>
         THEN ConfigureAdapterIPAddress(
                ip_table, NetLinkOf(GetAdapterLuid(a.adapter_handle_)),
                cfg.addresses, addr_refused_at)
         ELSE [ret |-> TRUE, table |-> ip_table, calls |-> <<>>],
         applied, NetLinkOf(GetAdapterLuid(a.adapter_handle_)), cfg, refused)

\* The host and the driver answer only the calls that are made.
ConnectAnswersAsked(a, cfg, set_ok, up_ok, addr_refused_at, refused) ==
  /\ ~Builds(cfg.doc) => ~set_ok
  /\ ~set_ok => ~up_ok
  /\ CanRefuse(cfg.addresses, addr_refused_at)
  /\ ~up_ok => addr_refused_at = 0 /\ refused = {}
  /\ addr_refused_at # 0 => refused = {}

\* HandleConnect(name, cfg) for an adapter that was found and is valid.
ConnectAdapter(i, cfg, set_ok, up_ok, addr_refused_at, refused) ==
  /\ ConnectAnswersAsked(adapters_[i], cfg, set_ok, up_ok, addr_refused_at,
                         refused)
  /\ \E r \in {AfterApply(ApplyConfiguration(adapters_[i], cfg.doc, set_ok,
                                            up_ok),
                         adapters_[i], cfg, addr_refused_at, refused)} :
       /\ adapters_' = [adapters_ EXCEPT ![i].parsed_config_ = r.parsed_config_]
       /\ driver_calls' = r.driver_calls
       /\ ip_table' = r.ip_table
       /\ route_table' = r.route_table
       /\ net_calls' = Range(r.net_calls)
       /\ net_returned' =
            [op |-> "connect",
             luid |-> NetLinkOf(GetAdapterLuid(adapters_[i].adapter_handle_)),
             ret |-> r.code = "Success"]
       /\ returned' =
            ConnectResult(r.code = "Success", r.code,
                          GetAdapterLuid(adapters_[i].adapter_handle_))
       /\ IF r.code = "Success" /\ GetLUID(adapters_[i], TRUE).ret
          THEN /\ StartObservingRun(GetAdapterLuid(adapters_[i].adapter_handle_))
               /\ flow' =
                    IF IsMonitoring(GetAdapterLuid(adapters_[i].adapter_handle_))
                    THEN r.flow
                    ELSE r.flow \o <<Step("StartObserving", TRUE)>>
          ELSE /\ flow' = r.flow
               /\ delivered' = NoEvent
               /\ UNCHANGED <<monitored_adapters_, notifications_registered_,
                              interface_notification_handle_, os_subscriptions>>

\* HandleConnect(name, cfg)
HandleConnect(name, cfg, set_ok, up_ok, addr_refused_at, refused) ==
  /\ plugin_alive
  /\ disconnect_pc = "idle"
  /\ adapters_mutex_ = NoThread
  /\ IF FindAdapterByName(name) = {}
     THEN /\ ~set_ok /\ ~up_ok /\ addr_refused_at = 0 /\ refused = {}
          /\ returned' = ConnectResult(FALSE, "ADAPTER_NOT_FOUND", NullLuid)
          /\ flow' = <<>>
          /\ driver_calls' = <<>>
          /\ delivered' = NoEvent
          /\ UNCHANGED <<adapters_, netVars, monitored_adapters_,
                         notifications_registered_,
                         interface_notification_handle_, os_subscriptions>>
     ELSE ConnectAdapter(CHOOSE i \in FindAdapterByName(name) :
                           \A j \in FindAdapterByName(name) : i <= j,
                         cfg, set_ok, up_ok, addr_refused_at, refused)
  /\ UNCHANGED <<disconnect_pc, target_adapter>>
  /\ UNCHANGED <<plugin_alive, wg_library_, libraries, dll_present,
                 dll_exports, image_refs, handles_issued, close_count>>
  /\ HandlerKeepsThreads
  /\ UNCHANGED <<statusVars, parserVars, raceVars>>

\* The method calls of the plugin, one at a time.
NextPlugin ==
  \/ NextDisconnect
  \/ /\ disconnect_pc = "idle"
     /\ \E name \in Names, cfg \in ConnectTexts, set_ok \in BOOLEAN,
           up_ok \in BOOLEAN :
          \E addr_refused_at \in 0..Len(cfg.addresses),
             refused \in SUBSET {k \in 1..Len(cfg.peers) :
                                  FirstAttempted(cfg.peers[k]) # 0} :
            HandleConnect(name, cfg, set_ok, up_ok, addr_refused_at, refused)

SpecPlugin == Init /\ [][NextPlugin]_vars


\* ===================================================================== claims
Moved(t) == pc'[t] # pc[t]

NoDuplicates ==
  \A i, j \in 1..Len(monitored_adapters_) :
    monitored_adapters_[i] = monitored_adapters_[j] => i = j

\* The events that carry link l and one of the three observer statuses.
StatusEvents(l) == {<<l, s>> : s \in {"connected", "disconnected", "unknown"}}

\* C1: no operation of the observer holds the mutex at the moment it calls the
\* OS subscribe call, the OS cancel-and-wait call or the sink notification.
C1_LockNotHeldAcrossOsCallOrSink ==
  \A t \in Threads :
    /\ pc[t] = "so_subscribe" => adapters_mutex_ # t
    /\ pc[t] \in {"so_notify", "cb_notify"} => adapters_mutex_ # t
    /\ pc[t] \in {"st_cancel", "st_wait", "sa_cancel", "sa_wait"}
         => adapters_mutex_ # t

\* C2: StopObserving and StopAllObserving never call the blocking cancel with
\* the mutex held: when a thread is at (or inside) the cancel call it does not
\* hold the mutex, the handle it cancels is its local copy, and the shared
\* handle no longer is that handle (it was cleared under the lock).
C2_CancelOutsideLock ==
  \A t \in Threads :
    pc[t] \in {"st_cancel", "st_wait", "sa_cancel", "sa_wait"} =>
      /\ adapters_mutex_ # t
      /\ handle_to_cancel[t] # NullHandle =>
           interface_notification_handle_ # handle_to_cancel[t]
      /\ pc[t] \in {"st_wait", "sa_wait"} => handle_to_cancel[t] # NullHandle

\* C2 witness: a StopObserving and a StopAllObserving are both inside their
\* cancel call, each with a handle of its own.
C2_Witness ==
  \E t, u \in Threads :
    /\ pc[t] = "st_wait"
    /\ pc[u] \in {"sa_cancel", "sa_wait"}
    /\ handle_to_cancel[u] # NullHandle

\* C3: when StopObserving runs on a callback thread while StartObserving for
\* another id runs on another thread, both calls eventually return, and the
\* monitored set never holds an id twice.
C3_Scenario(t, u) ==
  /\ in_callback[t] # NullHandle
  /\ pc[t] = "st_lock"
  /\ pc[u] = "so_lock"
  /\ luid[u] # luid[t]

C3_StopFromCallbackReturns ==
  /\ []NoDuplicates
  /\ \A t, u \in Threads :
       /\ C3_Scenario(t, u) ~> (pc[t] = "idle")
       /\ C3_Scenario(t, u) ~> (pc[u] = "idle")

\* C4: whenever the mutex is free, the subscribed flag is true iff the
\* monitored set is non-empty; a subscription is registered only by a
\* StartObserving that finds the set empty and then adds its id, and a
\* subscription is taken for cancelling only by a StopObserving or
\* StopAllObserving that turns a non-empty set empty, and cancelled only by it.
C4_FlagMatchesSet ==
  /\ adapters_mutex_ = NoThread =>
       (notifications_registered_ <=> monitored_adapters_ # <<>>)
  /\ (notifications_registered_ /\ monitored_adapters_ = <<>>) =>
       \E t \in Threads : pc[t] = "so_push_back" /\ adapters_mutex_ = t
  /\ notifications_registered_ <=> interface_notification_handle_ # NullHandle

C4_Steps ==
  /\ os_subscriptions' # os_subscriptions =>
       \E t \in Threads :
         /\ Moved(t)
         /\ \/ /\ pc[t] = "so_subscribe"
               /\ monitored_adapters_ = <<>>
               /\ ~notifications_registered_
               /\ pc'[t] = "so_push_back"
               /\ os_subscriptions' = os_subscriptions \cup {interface_notification_handle_'}
            \/ /\ pc[t] \in {"st_cancel", "sa_cancel"}
               /\ os_subscriptions' = os_subscriptions \ {handle_to_cancel[t]}
  /\ \A t \in Threads :
       (handle_to_cancel'[t] # handle_to_cancel[t] /\ handle_to_cancel'[t] # NullHandle) =>
         /\ pc[t] \in {"st_lock", "sa_lock"}
         /\ monitored_adapters_ # <<>>
         /\ monitored_adapters_' = <<>>
         /\ handle_to_cancel'[t] = interface_notification_handle_
  /\ \A t \in Threads :
       (pc[t] = "so_push_back" /\ Moved(t)) =>
         Len(monitored_adapters_') = Len(monitored_adapters_) + 1

C4_SubscribedIffNonEmpty == [] C4_FlagMatchesSet /\ [][C4_Steps]_vars

\* C4 witness: the last id was stopped, its subscription is being cancelled,
\* and the flag and the set are back to false and empty with the mutex free.
C4_Witness ==
  \E t \in Threads :
    /\ pc[t] = "st_wait"
    /\ adapters_mutex_ = NoThread
    /\ ~notifications_registered_
    /\ monitored_adapters_ = <<>>

\* C5: every link id occurs at most once in the monitored set, and a
\* StartObserving for an id that is in the set adds no entry and registers
\* nothing: it returns with the set and the subscription as they were.
C5_StartOfMonitored ==
  \A t \in Threads :
    (pc[t] = "so_lock" /\ Moved(t) /\ luid[t] \in Range(monitored_adapters_)) =>
      /\ pc'[t] = "idle"
      /\ UNCHANGED <<monitored_adapters_, os_subscriptions,
                     notifications_registered_, interface_notification_handle_>>

C5_StartObservingIdempotent == [] NoDuplicates /\ [][C5_StartOfMonitored]_vars

\* C5 witness: two threads are in StartObserving for the same id, one of
\* them has added it and the other has yet to look it up.
C5_Witness ==
  \E t, u \in Threads :
    /\ t # u
    /\ pc[t] = "so_lock"
    /\ pc[u] = "so_notify"
    /\ luid[t] = luid[u]
    /\ luid[t] \in Range(monitored_adapters_)

\* C6: a StartObserving for an id that is already monitored, with a sink
\* attached, leaves set and subscription unchanged and re-sends the link's
\* status to the sink before it returns.
C6_Resend ==
  \A t \in Threads :
    (pc[t] = "so_lock" /\ Moved(t) /\ luid[t] \in Range(monitored_adapters_) /\ sink_) =>
      /\ UNCHANGED <<monitored_adapters_, os_subscriptions,
                     notifications_registered_, interface_notification_handle_>>
      /\ pc'[t] = "idle" => delivered' \in StatusEvents(luid[t])

C6_AlreadyMonitoredResendsStatus == [][C6_Resend]_vars

\* C7: when establishing the subscription fails, StartObserving has no side
\* effect: the id is not in the set, the flag is false, no handle is kept, no
\* subscription exists for it and no event reaches the sink.
C7_AfterFailure ==
  \A t \in Threads :
    pc[t] = "so_failed" =>
      /\ luid[t] \notin Range(monitored_adapters_)
      /\ monitored_adapters_ = <<>>
      /\ ~notifications_registered_
      /\ interface_notification_handle_ = NullHandle

C7_FailureSteps ==
  \A t \in Threads :
    /\ (pc[t] = "so_subscribe" /\ pc'[t] = "so_failed") =>
         /\ UNCHANGED <<monitored_adapters_, os_subscriptions,
                        notifications_registered_, interface_notification_handle_>>
         /\ delivered' = NoEvent
    /\ (pc[t] = "so_failed" /\ Moved(t)) =>
         /\ pc'[t] = "idle"
         /\ UNCHANGED <<monitored_adapters_, os_subscriptions,
                        notifications_registered_, interface_notification_handle_>>
         /\ delivered' = NoEvent

C7_SubscribeFailureNoSideEffects == [] C7_AfterFailure /\ [][C7_FailureSteps]_vars

\* C7 witness: the subscribe call of a StartObserving has failed while a
\* sink is attached.
C7_Witness ==
  \E t \in Threads :
    /\ pc[t] = "so_failed"
    /\ adapters_mutex_ = t
    /\ sink_

\* C8: StopObserving for an id that is not monitored changes neither the set,
\* the flag nor the handle, takes no handle to cancel, and returns without an
\* OS cancel call.
C8_StopOfUnmonitored ==
  \A t \in Threads :
    /\ (pc[t] = "st_lock" /\ Moved(t) /\ luid[t] \notin Range(monitored_adapters_)) =>
         /\ UNCHANGED <<monitored_adapters_, os_subscriptions,
                        notifications_registered_, interface_notification_handle_>>
         /\ handle_to_cancel'[t] = NullHandle
         /\ pc'[t] = "st_cancel"
    /\ (pc[t] = "st_cancel" /\ Moved(t) /\ handle_to_cancel[t] = NullHandle) =>
         /\ pc'[t] = "idle"
         /\ UNCHANGED <<monitored_adapters_, os_subscriptions,
                        notifications_registered_, interface_notification_handle_>>

C8_StopUnmonitoredNoOp == [][C8_StopOfUnmonitored]_vars

\* C8 witness: a StopObserving is about to look up an id that is not in the
\* (non-empty) monitored set.
C8_Witness ==
  \E t \in Threads :
    /\ pc[t] = "st_lock"
    /\ adapters_mutex_ = NoThread
    /\ monitored_adapters_ # <<>>
    /\ luid[t] \notin Range(monitored_adapters_)

\* C9: a StartObserving that newly adds its id pushes exactly one event, with
\* that id and a queried status, as its last step if a sink is attached then;
\* it pushes none if no sink is attached when the id is added; no other step
\* of StartObserving pushes an event.
C9_StartPush ==
  \A t \in Threads :
    /\ (pc[t] = "so_notify" /\ Moved(t)) =>
         /\ pc'[t] = "idle"
         /\ luid[t] \in Range(monitored_adapters_)
         /\ sink_ => delivered' \in StatusEvents(luid[t])
         /\ ~sink_ => delivered' = NoEvent
    /\ (pc[t] = "so_push_back" /\ Moved(t)) =>
         /\ luid[t] \notin Range(monitored_adapters_)
         /\ luid[t] \in Range(monitored_adapters_')
         /\ delivered' = NoEvent
         /\ sink_ => pc'[t] = "so_notify"
         /\ ~sink_ => pc'[t] = "idle"
    /\ (pc[t] \in {"so_lock", "so_subscribe", "so_failed"} /\ Moved(t)) =>
         delivered' = NoEvent

C9_InitialStatusPushedOnce == [][C9_StartPush]_vars

\* C9 witness: a StartObserving has added its id and is about to push the
\* initial status to the attached sink.
C9_Witness ==
  \E t \in Threads :
    /\ pc[t] = "so_notify"
    /\ sink_
    /\ monitored_adapters_[Len(monitored_adapters_)] = luid[t]

\* C10 as stated: a callback for an id that is not monitored at its lookup
\* pushes no event and changes no observer state; a callback for a monitored
\* id pushes exactly one event carrying that id and a queried status.
C10_CallbackUnmonitored ==
  \A t \in Threads :
    (pc[t] = "cb_lock" /\ Moved(t) /\ luid[t] \notin Range(monitored_adapters_)) =>
      /\ pc'[t] = "idle"
      /\ delivered' = NoEvent
      /\ UNCHANGED <<adapters_mutex_, monitored_adapters_, sink_, os_subscriptions,
                     notifications_registered_, interface_notification_handle_>>

C10_CallbackMonitoredNoPushYet ==
  \A t \in Threads :
    (pc[t] = "cb_lock" /\ Moved(t) /\ luid[t] \in Range(monitored_adapters_)) =>
      /\ pc'[t] = "cb_notify"
      /\ delivered' = NoEvent

C10_Original ==
  \A t \in Threads :
    (pc[t] = "cb_notify" /\ Moved(t)) =>
      /\ pc'[t] = "idle"
      /\ delivered' \in StatusEvents(luid[t])

C10_CallbackPushesOneEvent ==
  [][C10_CallbackUnmonitored /\ C10_CallbackMonitoredNoPushYet /\ C10_Original]_vars

\* C10 amended: ... a callback for a monitored id pushes exactly one event
\* carrying that id and a queried status if a sink is attached when it
\* pushes, and none if no sink is attached.
C10_Amended ==
  \A t \in Threads :
    (pc[t] = "cb_notify" /\ Moved(t)) =>
      /\ pc'[t] = "idle"
      /\ sink_ => delivered' \in StatusEvents(luid[t])
      /\ ~sink_ => delivered' = NoEvent
      /\ UNCHANGED <<adapters_mutex_, monitored_adapters_, sink_, os_subscriptions,
                     notifications_registered_, interface_notification_handle_>>

C10_CallbackPushesOneEventIfSink ==
  [][C10_CallbackUnmonitored /\ C10_CallbackMonitoredNoPushYet /\ C10_Amended]_vars

\* C10 witness: the callback of a subscription is about to push the status of
\* a link it found monitored, while another callback waits to look up a link
\* that is not monitored.
C10_Witness ==
  \E t, u \in Threads :
    /\ pc[t] = "cb_notify"
    /\ sink_
    /\ pc[u] = "cb_lock"
    /\ luid[u] \notin Range(monitored_adapters_)


\* C11: the status derivation is total onto connected / disconnected /
\* unknown.  Every query answers "connected" for Up, "disconnected" for
\* Down, Dormant, NotPresent and LowerLayerDown, and "unknown" for Testing,
\* Unknown, an unrecognized value and a failed query; it never answers
\* "connecting" or "disconnecting".
C11_Table(entry) ==
  CASE entry = "IfOperStatusUp" -> "connected"
    [] entry = "IfOperStatusDown" -> "disconnected"
    [] entry = "IfOperStatusDormant" -> "disconnected"
    [] entry = "IfOperStatusNotPresent" -> "disconnected"
    [] entry = "IfOperStatusLowerLayerDown" -> "disconnected"
    [] entry = "IfOperStatusTesting" -> "unknown"
    [] entry = "IfOperStatusUnknown" -> "unknown"
    [] entry = "Unrecognized" -> "unknown"
    [] entry = NoIfEntry -> "unknown"

C11_Query ==
  \A l \in Luids :
    QueryInterfaceStatus(l) =>
      /\ last_status'[2] = C11_Table(if_table[l])
      /\ last_status'[2] \in {"connected", "disconnected", "unknown"}

C11_StatusDerivationTotal == [][C11_Query]_vars

C11_Witness ==
  \E l \in Luids :
    /\ if_table[l] = "IfOperStatusLowerLayerDown"
    /\ last_status = <<l, "disconnected">>


\* C18: the library binding is all-or-nothing.  When the image cannot be
\* loaded or any of the twelve entry points is missing, Create returns no
\* library object, the image is released again and IsLoaded() is false on the
\* object that was built; a library with IsLoaded() true has all twelve
\* entry points resolved.
C18_LoadedMeansAllResolved ==
  \A id \in LibraryIds :
    IsLoaded(libraries, id) => libraries[id].functions = EntryPoints

C18_ImageHeldByLoadedOnly ==
  image_refs = Cardinality({id \in LibraryIds : IsLoaded(libraries, id)})

C18_FailedCreate ==
  (returned # NoEvent /\ returned.op = "WireguardLibrary::Create") =>
    /\ returned.ret = returned.object.dll_handle_
    /\ returned.ret = (returned.object.functions = EntryPoints)
    /\ ~returned.ret => wg_library_ = NullLibrary

C18_AllOrNothing ==
  /\ C18_LoadedMeansAllResolved
  /\ C18_ImageHeldByLoadedOnly
  /\ C18_FailedCreate

C18_Witness ==
  /\ returned # NoEvent
  /\ returned.op = "WireguardLibrary::Create"
  /\ ~returned.ret
  /\ dll_present
  /\ EntryPoints \ dll_exports = {"WireGuardGetConfiguration"}
  /\ image_refs = 0


\* C12: if a stage of ApplyConfiguration fails (parse, size calculation,
\* build, SetConfiguration, SetState(up)), the call returns failure and the
\* adapter holds no cached parsed configuration afterwards; the document is
\* cached only when the whole sequence succeeds.
C12_FailureDiscardsCache ==
  (returned # NoEvent /\ returned.op = "ApplyConfiguration") =>
    LET succeeds == Builds(returned.doc) /\ returned.set_ok /\ returned.up_ok
        cached == adapters_[returned.adapter].parsed_config_
    IN /\ returned.ret = succeeds
       /\ ~succeeds => cached = NoConfig
       /\ succeeds => cached = returned.doc

\* C13: ApplyConfiguration calls the driver's set-configuration only after
\* the parse succeeded and the build returned the pre-computed size, and
\* SetState(up) only after set-configuration succeeded; on a parse failure or
\* a size mismatch it makes no driver call.
C13_DriverCalledInOrder ==
  (returned # NoEvent /\ returned.op = "ApplyConfiguration") =>
    LET doc == returned.doc
        fns == [k \in 1..Len(driver_calls) |-> driver_calls[k].fn]
    IN /\ fns \in {<<>>, <<"WireGuardSetConfiguration">>,
                   <<"WireGuardSetConfiguration", "WireGuardSetAdapterState">>}
       /\ Len(fns) >= 1 => doc.parse /\ doc.built = doc.size
       /\ Len(fns) = 2 <=> (Len(fns) >= 1 /\ returned.set_ok)
       /\ (~doc.parse \/ doc.built # doc.size) => fns = <<>>

C13_Witness ==
  /\ returned # NoEvent
  /\ returned.op = "ApplyConfiguration"
  /\ ~returned.ret
  /\ Len(driver_calls) = 2
  /\ driver_calls[2].fn = "WireGuardSetAdapterState"

\* C14: no adapter operation (SetState, GetState, SetConfiguration, GetLUID,
\* SetLogging, ApplyConfiguration) calls a driver entry point with a null
\* handle or through a library that is not loaded; on such an adapter it
\* returns failure (GetState: down) and makes no driver call.
AdapterObjects ==
  [name : Names, library_ : LibraryIds,
   adapter_handle_ : Handles \cup {NullHandle}, parsed_config_ : {NoConfig}]

C14_CallsAreSafe ==
  \A k \in 1..Len(driver_calls) :
    /\ driver_calls[k].loaded
    /\ driver_calls[k].fn \notin {"WireGuardCreateAdapter", "WireGuardOpenAdapter"}
         => driver_calls[k].handle # NullHandle

C14_Refused(r) == r.ret = FALSE /\ r.calls = <<>>

C14_UnusableRefuses ==
  \A a \in AdapterObjects :
    Unusable(a) =>
      /\ \A ok \in BOOLEAN :
           /\ C14_Refused(SetState(a, ok))
           /\ C14_Refused(SetLogging(a, ok))
           /\ C14_Refused(SetConfiguration(a, TRUE, ok))
           /\ \A state \in AdapterStates :
                GetState(a, ok, state) = [ret |-> "DOWN", calls |-> <<>>]
      /\ C14_Refused(GetLUID(a, TRUE))
      /\ \A doc \in ParserAnswers, set_ok, up_ok \in BOOLEAN :
           LET r == ApplyConfiguration(a, doc, set_ok, up_ok)
           IN r.ret = FALSE /\ r.calls = <<>>

C14_NoCallOnUnusableAdapter == C14_CallsAreSafe /\ C14_UnusableRefuses

C14_Witness ==
  /\ returned # NoEvent
  /\ returned.op = "SetState"
  /\ Len(driver_calls) = 1
  /\ driver_calls[1].handle # NullHandle
  /\ \E id \in LibraryIds : ~IsLoaded(libraries, id)

\* C15: for every handle obtained by a successful Create or Open, the
\* driver's close entry point is called exactly once over the adapter's
\* lifetime, at its destruction; for a Create or Open in which the driver
\* returned no handle, close is never called.
HandlesHeld == {adapters_[i].adapter_handle_ : i \in 1..Len(adapters_)}

C15_ClosedExactlyOnce ==
  /\ \A h \in Handles :
       close_count[h] = IF h <= handles_issued /\ h \notin HandlesHeld THEN 1 ELSE 0
  /\ \A k \in 1..Len(driver_calls) :
       driver_calls[k].fn = "WireGuardCloseAdapter"
         => driver_calls[k].handle # NullHandle
  /\ \A i, j \in 1..Len(adapters_) :
       adapters_[i].adapter_handle_ = adapters_[j].adapter_handle_ => i = j

C15_Witness ==
  /\ ~plugin_alive
  /\ handles_issued = 1
  /\ close_count[1] = 1
  /\ Len(driver_calls) = 1

\* C16: Create and Open return no adapter whenever the library is null or
\* not loaded (without calling the driver) or the driver returns a null
\* handle; every adapter they return is valid.
C16_Factory(r, library, h) ==
  /\ (library = NullLibrary \/ ~IsLoaded(libraries, library))
       => ~r.ok /\ r.calls = <<>>
  /\ h = NullHandle => ~r.ok
  /\ r.ok => IsValid(r.adapter)

C16_ReturnedAdaptersValid ==
  /\ \A library \in LibraryIds \cup {NullLibrary},
        h \in Handles \cup {NullHandle}, name \in Names :
       /\ C16_Factory(WireguardAdapter_Create(libraries, library, name, h),
                      library, h)
       /\ C16_Factory(WireguardAdapter_Open(libraries, library, name, h),
                      library, h)
  /\ \A i \in 1..Len(adapters_) : IsValid(adapters_[i])

C16_Witness ==
  /\ returned # NoEvent
  /\ returned.op = "setupTunnel"
  /\ ~returned.ret
  /\ Len(driver_calls) = 2
  /\ driver_calls[2].fn = "WireGuardCreateAdapter"
  /\ driver_calls[2].handle = NullHandle
  /\ adapters_ = <<>>

\* C17: the library image is released only after every adapter created
\* through it is destroyed, across nativeInit (which may replace the
\* plugin's library reference), setupTunnel and the plugin's destruction; no
\* adapter calls a library function after the unload.
Owners(id) ==
  Cardinality({i \in 1..Len(adapters_) : adapters_[i].library_ = id})
    + (IF wg_library_ = id THEN 1 ELSE 0)

C17_LibraryOutlivesAdapters ==
  /\ \A i \in 1..Len(adapters_) : IsLoaded(libraries, adapters_[i].library_)
  /\ \A k \in 1..Len(driver_calls) : driver_calls[k].loaded
  /\ \A id \in LibraryIds : libraries[id].use_count = Owners(id)
  /\ \A id \in LibraryIds : IsLoaded(libraries, id) <=> Owners(id) > 0
  /\ image_refs = Cardinality({id \in LibraryIds : IsLoaded(libraries, id)})

C17_Witness ==
  /\ plugin_alive
  /\ \E i \in 1..Len(adapters_) :
       /\ adapters_[i].library_ # wg_library_
       /\ wg_library_ # NullLibrary
       /\ IsLoaded(libraries, adapters_[i].library_)


\* C19: address and route install are idempotent.  Applying
\* ConfigureIPAddresses (ConfigureRoutes) again with entries that are already
\* installed for the link succeeds, the OS answering 'already exists' counts
\* as success, and the OS table holds exactly one matching row per address
\* (route) afterwards.
C19_Idempotent(table, after) ==
  /\ \A call \in net_calls' :
       /\ call.luid = net_returned'.luid
       /\ table[<<call.luid, call.family>>] = 1
            => call.result = "ERROR_OBJECT_ALREADY_EXISTS"
       /\ call.result = "ERROR_OBJECT_ALREADY_EXISTS"
            => after[<<call.luid, call.family>>] = 1
  /\ (\A call \in net_calls' : table[<<call.luid, call.family>>] = 1)
       => net_returned'.ret /\ after = table
  /\ net_returned'.ret =>
       \A call \in net_calls' : after[<<call.luid, call.family>>] = 1
  /\ \A key \in NetKeys : after[key] <= 1

C19_Configure ==
  /\ net_returned'.op = "ConfigureIPAddresses" => C19_Idempotent(ip_table, ip_table')
  /\ net_returned'.op = "ConfigureRoutes" => C19_Idempotent(route_table, route_table')

C19_InstallIdempotent == [][C19_Configure]_vars

C19_Witness ==
  /\ net_returned # NoEvent
  /\ net_returned.op = "ConfigureRoutes"
  /\ net_returned.ret
  /\ net_calls # {}
  /\ \A call \in net_calls : call.result = "ERROR_OBJECT_ALREADY_EXISTS"
  /\ \E call \in net_calls : route_table[<<call.luid, call.family>>] = 1

\* C20: RemoveIPAddresses and RemoveRoutes issue delete calls only for rows
\* whose link equals the configurator's: the rows of every other link are
\* left unchanged, and for a link with no rows the removal makes no delete
\* call and succeeds.
C20_HasRows(table, l) == \E f \in SupportedFamilies : table[<<l, f>>] > 0

C20_Deletes ==
  {call \in net_calls' :
     call.fn \in {"DeleteUnicastIpAddressEntry", "DeleteIpForwardEntry2"}}

C20_Frame(table, after) ==
  LET l == net_returned'.luid
  IN /\ \A call \in C20_Deletes : call.luid = l /\ table[<<l, call.family>>] > 0
     /\ \A key \in NetKeys : key[1] # l => after[key] = table[key]
     /\ ~C20_HasRows(table, l) => C20_Deletes = {}

C20_Original ==
  /\ net_returned'.op = "RemoveIPAddresses" =>
       /\ C20_Frame(ip_table, ip_table')
       /\ ~C20_HasRows(ip_table, net_returned'.luid) => net_returned'.ret
  /\ net_returned'.op = "RemoveRoutes" =>
       /\ C20_Frame(route_table, route_table')
       /\ ~C20_HasRows(route_table, net_returned'.luid) => net_returned'.ret

C20_RemoveOnlyOwnLink == [][C20_Original]_vars

\* C20, amended: as above, but for a link with no rows the removal succeeds
\* if and only if the table could be enumerated.
C20_Enumerated ==
  \E call \in net_calls' :
    /\ call.fn \in {"GetUnicastIpAddressTable", "GetIpForwardTable2"}
    /\ call.result = "NO_ERROR"

C20_Amended ==
  /\ net_returned'.op = "RemoveIPAddresses" =>
       /\ C20_Frame(ip_table, ip_table')
       /\ ~C20_HasRows(ip_table, net_returned'.luid)
            => (net_returned'.ret <=> C20_Enumerated)
  /\ net_returned'.op = "RemoveRoutes" =>
       /\ C20_Frame(route_table, route_table')
       /\ ~C20_HasRows(route_table, net_returned'.luid)
            => (net_returned'.ret <=> C20_Enumerated)

C20_RemoveOnlyOwnLinkIfEnumerated == [][C20_Amended]_vars

C20_Witness ==
  /\ net_returned # NoEvent
  /\ net_returned.op = "RemoveIPAddresses"
  /\ net_returned.ret
  /\ \A call \in net_calls : call.fn = "GetUnicastIpAddressTable"
  /\ ~C20_HasRows(ip_table, net_returned.luid)
  /\ \E l \in NetLinks : l # net_returned.luid /\ C20_HasRows(ip_table, l)

\* C21: removal is best-effort.  RemoveIPAddresses / RemoveRoutes attempt the
\* delete of every row of the link even after an earlier delete failed,
\* count 'not found' as success, and return failure if and only if the table
\* enumeration failed or a delete returned a code other than success or
\* not-found.
C21_Deletes(fn) == {call \in net_calls' : call.fn = fn}

C21_Failed(get, fn) ==
  \/ \E call \in net_calls' : call.fn = get /\ call.result # "NO_ERROR"
  \/ \E call \in C21_Deletes(fn) :
       call.result \notin {"NO_ERROR", "ERROR_NOT_FOUND"}

C21_AllAttempted(get, fn, table) ==
  (\E call \in net_calls' : call.fn = get /\ call.result = "NO_ERROR") =>
    \A f \in SupportedFamilies :
      table[<<net_returned'.luid, f>>] > 0 =>
        \E call \in C21_Deletes(fn) :
          call.luid = net_returned'.luid /\ call.family = f

C21_Removal ==
  /\ net_returned'.op = "RemoveIPAddresses" =>
       /\ C21_AllAttempted("GetUnicastIpAddressTable",
                           "DeleteUnicastIpAddressEntry", ip_table)
       /\ ~net_returned'.ret <=> C21_Failed("GetUnicastIpAddressTable",
                                           "DeleteUnicastIpAddressEntry")
  /\ net_returned'.op = "RemoveRoutes" =>
       /\ C21_AllAttempted("GetIpForwardTable2", "DeleteIpForwardEntry2",
                           route_table)
       /\ ~net_returned'.ret <=> C21_Failed("GetIpForwardTable2",
                                           "DeleteIpForwardEntry2")

C21_RemovalBestEffort == [][C21_Removal]_vars

\* C21 witness: a removal whose first delete was refused has gone on to the
\* next row, which was gone already, and returned failure.
C21_Witness ==
  /\ net_returned # NoEvent
  /\ net_returned.op = "RemoveRoutes"
  /\ ~net_returned.ret
  /\ \E c1, c2 \in net_calls :
       /\ c1.fn = "DeleteIpForwardEntry2" /\ c2.fn = "DeleteIpForwardEntry2"
       /\ c1.family = "AF_INET" /\ c1.result = "ERROR_ACCESS_DENIED"
       /\ c2.family = "AF_INET6" /\ c2.result = "ERROR_NOT_FOUND"
       /\ route_table[<<c2.luid, c2.family>>] = 0

\* C22: when Parse fails on a key's value, the parser retains no partial
\* document: the interface settings are in their empty default state and the
\* peer list is empty.
C22_FailedParseRetainsNothing ==
  (parser_returned # NoEvent /\ parser_returned.op = "Parse"
     /\ ~parser_returned.ret) =>
    /\ interface_ = EmptyInterface
    /\ peers_ = <<>>

\* C23: for every document that parses successfully, the peer list has
\* exactly one entry per [Peer] section, in document order, and the keys of
\* all [Interface] sections accumulate into the single interface settings;
\* keys of sections with another name, unknown keys and lines before the
\* first section header contribute nothing.
C23_Indices(doc) == [k \in 1..Len(doc) |-> k]

\* The header line that opens the section line k belongs to (0: none).
C23_Owner(doc, k) ==
  LET before == {j \in 1..(k - 1) : doc[j].kind = "header"}
  IN IF before = {} THEN 0
     ELSE CHOOSE j \in before : \A i \in before : i <= j

C23_Known(section) ==
  IF section = "Interface"
  THEN {"PrivateKey", "PublicKey", "ListenPort", "Address"}
  ELSE {"PublicKey", "PresharedKey", "PersistentKeepalive", "Endpoint",
        "AllowedIPs"}

\* The key lines of the sections opened by the headers in owners, with the
\* keys the section kind knows, in document order.
C23_KeyLines(doc, section, owners) ==
  LET at == SelectSeq(C23_Indices(doc),
                      LAMBDA k : /\ doc[k].kind = "pair"
                                 /\ C23_Owner(doc, k) \in owners
                                 /\ doc[k].key \in C23_Known(section))
  IN [n \in 1..Len(at) |-> doc[at[n]]]

C23_Headers(doc, section) ==
  SelectSeq(C23_Indices(doc),
            LAMBDA k : doc[k].kind = "header" /\ doc[k].name = section)

C23_Settings(section, lines, start) ==
  ParseSectionLines(section, lines, 1, start).target

C23_SectionsCompose ==
  (parser_returned # NoEvent /\ parser_returned.op = "Parse"
     /\ parser_returned.ret) =>
    LET doc == parser_returned.config_text
        peer_headers == C23_Headers(doc, "Peer")
        interface_headers == C23_Headers(doc, "Interface")
    IN /\ Len(peers_) = Len(peer_headers)
       /\ \A n \in 1..Len(peers_) :
            peers_[n] = C23_Settings("Peer",
                                     C23_KeyLines(doc, "Peer", {peer_headers[n]}),
                                     NewPeer)
       /\ interface_ = C23_Settings("Interface",
                                    C23_KeyLines(doc, "Interface",
                                                 Range(interface_headers)),
                                    EmptyInterface)

\* C23 witness: a document of two [Peer] sections, the first with a public
\* key and the second without, and a comment line, has been parsed.
C23_Witness ==
  /\ parser_returned # NoEvent
  /\ parser_returned.op = "Parse"
  /\ parser_returned.ret
  /\ Len(peers_) = 2
  /\ peers_[1].has_public_key
  /\ ~peers_[2].has_public_key
  /\ \E k \in 1..Len(parser_returned.config_text) :
       parser_returned.config_text[k] = CommentLine

\* The place in the buffer of the block of peer n: after the interface
\* block and the blocks of the peers before it with their allowed IPs.
RECURSIVE BlocksBefore(_)
BlocksBefore(n) ==
  IF n = 1 THEN 1
  ELSE BlocksBefore(n - 1) + 1 + Len(peers_[n - 1].allowed_ips)

Built ==
  /\ parser_returned # NoEvent
  /\ parser_returned.op = "BuildConfiguration"
  /\ parser_returned.ret # 0

\* C24: BuildConfiguration writes the interface header with peer count equal
\* to the number of parsed peers, then for each peer in parsed order its
\* block with allowed-IP count equal to the length of the peer's list,
\* followed at once by that many allowed-IP records in list order, with no
\* gap or overlap between blocks.
C24_BuiltLayout ==
  Built =>
    /\ Len(buffer) = BlocksBefore(Len(peers_) + 1)
    /\ buffer[1].type = "WIREGUARD_INTERFACE"
    /\ buffer[1].offset = 0
    /\ buffer[1].PeersCount = Len(peers_)
    /\ \A n \in 1..Len(peers_) :
         LET at == BlocksBefore(n) + 1
             ips == peers_[n].allowed_ips
         IN /\ buffer[at].type = "WIREGUARD_PEER"
            /\ buffer[at].AllowedIPsCount = Len(ips)
            /\ peers_[n].has_public_key
                 => buffer[at].PublicKey = peers_[n].public_key
            /\ \A j \in 1..Len(ips) :
                 /\ buffer[at + j].type = "WIREGUARD_ALLOWED_IP"
                 /\ buffer[at + j].AllowedIp = ips[j]
    /\ \A i \in 1..(Len(buffer) - 1) :
         buffer[i + 1].offset = buffer[i].offset + buffer[i].size

\* C24 witness: a configuration of two peers was built, the first with two
\* different allowed IPs and the second with none.
C24_Witness ==
  /\ Built
  /\ Len(peers_) = 2
  /\ Len(peers_[1].allowed_ips) = 2
  /\ peers_[1].allowed_ips[1] # peers_[1].allowed_ips[2]
  /\ peers_[2].allowed_ips = <<>>
  /\ Len(buffer) = 5

\* C27: when BuildConfiguration succeeds, its return value, the number of
\* bytes it wrote and CalculateConfigurationSize() all equal header + sum
\* over peers of (peer header + allowed-IP count * record size); with a
\* smaller buffer it returns 0 and writes nothing.
RECURSIVE C27_BytesWritten(_)
C27_BytesWritten(i) ==
  IF i = 0 THEN 0 ELSE buffer[i].size + C27_BytesWritten(i - 1)

RECURSIVE C27_PeerBytes(_)
C27_PeerBytes(n) ==
  IF n = 0 THEN 0
  ELSE SizeofPeer + Len(peers_[n].allowed_ips) * SizeofAllowedIp
         + C27_PeerBytes(n - 1)

C27_SizeAgrees ==
  (parser_returned # NoEvent /\ parser_returned.op = "BuildConfiguration") =>
    LET expected == SizeofInterface + C27_PeerBytes(Len(peers_))
    IN /\ CalculateConfigurationSize(peers_) = expected
       /\ parser_returned.buffer_size >= expected =>
            /\ parser_returned.ret = expected
            /\ parser_returned.current_pos = expected
            /\ C27_BytesWritten(Len(buffer)) = expected
       /\ parser_returned.buffer_size < expected =>
            /\ parser_returned.ret = 0
            /\ buffer = <<>>

\* C27 witness: the build of a configuration with a peer and an allowed IP
\* was given a buffer one byte too small.
C27_Witness ==
  /\ parser_returned # NoEvent
  /\ parser_returned.op = "BuildConfiguration"
  /\ parser_returned.ret = 0
  /\ parser_returned.buffer_size =
       SizeofInterface + SizeofPeer + 2 * SizeofAllowedIp - 1
  /\ Len(peers_) = 1

\* C28: in the built buffer the interface flags word is exactly
\* {replace-peers} plus one 'has' bit per interface field present in the
\* parsed document, each peer's flags word is exactly {replace-allowed-IPs}
\* plus one 'has' bit per present peer field, and a field whose bit is clear
\* is all zero bytes in the block.
C28_Bit(flags, bit, present, field, zero) ==
  /\ bit \in flags <=> present
  /\ bit \notin flags => field = zero

C28_FlagsMirrorPresence ==
  Built =>
    /\ LET b == buffer[1]
       IN /\ b.Flags \subseteq {"REPLACE_PEERS", "HAS_PRIVATE_KEY",
                                "HAS_PUBLIC_KEY", "HAS_LISTEN_PORT"}
          /\ "REPLACE_PEERS" \in b.Flags
          /\ C28_Bit(b.Flags, "HAS_PRIVATE_KEY", interface_.has_private_key,
                     b.PrivateKey, "zero")
          /\ C28_Bit(b.Flags, "HAS_PUBLIC_KEY", interface_.has_public_key,
                     b.PublicKey, "zero")
          /\ C28_Bit(b.Flags, "HAS_LISTEN_PORT", interface_.has_listen_port,
                     b.ListenPort, 0)
    /\ \A n \in 1..Len(peers_) :
         LET b == buffer[BlocksBefore(n) + 1]
         IN /\ b.Flags \subseteq {"REPLACE_ALLOWED_IPS", "HAS_PUBLIC_KEY",
                                  "HAS_PRESHARED_KEY",
                                  "HAS_PERSISTENT_KEEPALIVE", "HAS_ENDPOINT"}
            /\ "REPLACE_ALLOWED_IPS" \in b.Flags
            /\ C28_Bit(b.Flags, "HAS_PUBLIC_KEY", peers_[n].has_public_key,
                       b.PublicKey, "zero")
            /\ C28_Bit(b.Flags, "HAS_PRESHARED_KEY", peers_[n].has_preshared_key,
                       b.PresharedKey, "zero")
            /\ C28_Bit(b.Flags, "HAS_PERSISTENT_KEEPALIVE",
                       peers_[n].has_persistent_keepalive,
                       b.PersistentKeepalive, 0)
            /\ C28_Bit(b.Flags, "HAS_ENDPOINT", peers_[n].has_endpoint,
                       b.Endpoint, "zero")

\* C28 witness: a configuration was built whose interface has a listen port
\* and no private key, with a peer that has a public key and no endpoint.
C28_Witness ==
  /\ Built
  /\ interface_.has_listen_port
  /\ ~interface_.has_private_key
  /\ Len(peers_) = 1
  /\ peers_[1].has_public_key
  /\ ~peers_[1].has_endpoint

\* The lines of key `key' in the sections named `section', in document order.
LinesOf(doc, section, owners, key) ==
  SelectSeq(C23_KeyLines(doc, section, owners), LAMBDA line : line.key = key)

AllLinesOf(doc, section, key) ==
  LinesOf(doc, section, Range(C23_Headers(doc, section)), key)

ParseReturned == parser_returned # NoEvent /\ parser_returned.op = "Parse"

\* C25: parsing ListenPort, PersistentKeepalive and the Endpoint port fails
\* for any value that is not a decimal number or that lies outside 0..65535;
\* no out-of-range value is accepted and stored modulo 2^16.
C25_InRange(text) ==
  IsDecimal(text) /\ ~text.huge /\ text.num < WordModulus

C25_PortText(value) ==
  IF value.form = "endpoint" THEN value.port ELSE EmptyText

C25_PortsRangeChecked ==
  ParseReturned =>
    LET doc == parser_returned.config_text
        listen == AllLinesOf(doc, "Interface", "ListenPort")
        keepalive == AllLinesOf(doc, "Peer", "PersistentKeepalive")
        endpoint == AllLinesOf(doc, "Peer", "Endpoint")
    IN /\ (\E n \in 1..Len(listen) : ~C25_InRange(listen[n].value))
            => ~parser_returned.ret
       /\ (\E n \in 1..Len(keepalive) : ~C25_InRange(keepalive[n].value))
            => ~parser_returned.ret
       /\ (\E n \in 1..Len(endpoint) :
             ~C25_InRange(C25_PortText(endpoint[n].value)))
            => ~parser_returned.ret
       /\ (parser_returned.ret /\ Len(listen) > 0)
            => interface_.listen_port = listen[Len(listen)].value.num

\* C26: for every address/prefix entry that parses, the stored prefix length
\* equals the numeric value written after '/' in the document, whatever
\* that value is.
RECURSIVE C26_Items(_, _)
C26_Items(lines, k) ==
  IF k > Len(lines) THEN <<>>
  ELSE ListItems(lines[k].value) \o C26_Items(lines, k + 1)

C26_Kept(stored, items) ==
  /\ Len(stored) = Len(items)
  /\ \A n \in 1..Len(stored) : stored[n].Cidr = items[n].cidr.num

C26_PrefixLengthKept ==
  (ParseReturned /\ parser_returned.ret) =>
    LET doc == parser_returned.config_text
        peer_headers == C23_Headers(doc, "Peer")
    IN /\ C26_Kept(interface_.addresses,
                   C26_Items(AllLinesOf(doc, "Interface", "Address"), 1))
       /\ \A n \in 1..Len(peers_) :
            C26_Kept(peers_[n].allowed_ips,
                     C26_Items(LinesOf(doc, "Peer", {peer_headers[n]},
                                       "AllowedIPs"), 1))

\* C29: a key value is accepted, and its presence flag set, if and only if
\* its base64 token decodes to exactly 32 bytes; an empty token, an
\* undecodable token or a decode of any other length makes Parse fail and
\* leaves the presence flag unset.
C29_Decodes(text) ==
  text.form = "base64" /\ text.valid /\ text.len = WIREGUARD_KEY_LENGTH

C29_Refused(lines) == \E n \in 1..Len(lines) : ~C29_Decodes(lines[n].value)

C29_KeyAcceptedIffDecodes ==
  ParseReturned =>
    LET doc == parser_returned.config_text
        private == AllLinesOf(doc, "Interface", "PrivateKey")
        public == AllLinesOf(doc, "Interface", "PublicKey")
        peer_headers == C23_Headers(doc, "Peer")
        peer_public == AllLinesOf(doc, "Peer", "PublicKey")
        preshared == AllLinesOf(doc, "Peer", "PresharedKey")
    IN /\ ~parser_returned.crashed
       /\ (C29_Refused(private) \/ C29_Refused(public)
             \/ C29_Refused(peer_public) \/ C29_Refused(preshared))
            => ~parser_returned.ret
       /\ C29_Refused(private) => ~interface_.has_private_key
       /\ C29_Refused(public) => ~interface_.has_public_key
       /\ parser_returned.ret =>
            /\ interface_.has_private_key <=> Len(private) > 0
            /\ interface_.has_public_key <=> Len(public) > 0
            /\ \A n \in 1..Len(peers_) :
                 /\ peers_[n].has_public_key <=>
                      Len(LinesOf(doc, "Peer", {peer_headers[n]},
                                  "PublicKey")) > 0
                 /\ peers_[n].has_preshared_key <=>
                      Len(LinesOf(doc, "Peer", {peer_headers[n]},
                                  "PresharedKey")) > 0

\* C30: in the disconnect flow the steps occur in the order SetState(down),
\* then address and route removal, then StopObserving for the adapter's link
\* id; removal and StopObserving are never performed before SetState(down)
\* has succeeded.
C30_Order ==
  <<"SetState(DOWN)", "GetLUID", "RemoveAdapterIPAddresses",
    "RemoveRoutesForAdapter", "StopObserving">>

C30_DownSucceeded ==
  /\ Len(flow') >= 1
  /\ flow'[1] = Step("SetState(DOWN)", TRUE)

C30_Step ==
  /\ Len(flow') <= Len(C30_Order)
  /\ \A k \in 1..Len(flow') : flow'[k].step = C30_Order[k]
  /\ net_returned' # net_returned =>
       /\ C30_DownSucceeded
       /\ flow'[Len(flow')].step = net_returned'.op
       /\ net_returned'.luid = NetLinkOf(DisconnectLuid)
  /\ Len(monitored_adapters_') < Len(monitored_adapters_) =>
       /\ C30_DownSucceeded
       /\ Len(flow') = Len(C30_Order)
       /\ GetMonitoredAdapter(DisconnectLuid)
       /\ \A k \in 1..Len(monitored_adapters_') :
            monitored_adapters_'[k] # DisconnectLuid
  /\ (flow' # flow /\ Len(flow') = 1) =>
       \E k \in 1..Len(driver_calls') :
         driver_calls'[k].fn = "WireGuardSetAdapterState"

C30_DisconnectInOrder == [][C30_Step]_vars

\* C30 witness: a disconnect has run to its end: the adapter was set down,
\* both removals were made and its link id, the only one monitored, has been
\* taken from the monitored set.
C30_Witness ==
  /\ disconnect_pc = "idle"
  /\ Len(flow) = Len(C30_Order)
  /\ returned = DisconnectResult(TRUE, "Success")
  /\ net_returned # NoEvent
  /\ net_returned.op = "RemoveRoutesForAdapter"
  /\ monitored_adapters_ = <<>>
  /\ ~notifications_registered_

\* C32: ConfigureIPAddresses and ConfigureRoutes return failure if and only
\* if some entry's OS create call returns a code other than success or
\* already-exists; they stop at the first such entry (later entries are not
\* attempted, earlier ones stay installed), and entries of an unsupported
\* address family are skipped without affecting the result.
C32_Attempted(entries) ==
  SelectSeq(entries, LAMBDA family : family \in SupportedFamilies)

C32_Refused(call) ==
  call.result \notin {"NO_ERROR", "ERROR_OBJECT_ALREADY_EXISTS"}

C32_Holds(r, table, l, entries) ==
  /\ r.ret <=> \A i \in 1..Len(r.calls) : ~C32_Refused(r.calls[i])
  /\ \A i \in 1..Len(r.calls) : C32_Refused(r.calls[i]) => i = Len(r.calls)
  /\ Len(r.calls) <= Len(C32_Attempted(entries))
  /\ \A i \in 1..Len(r.calls) :
       /\ r.calls[i].luid = l
       /\ r.calls[i].family = C32_Attempted(entries)[i]
       /\ ~C32_Refused(r.calls[i]) => r.table[<<l, r.calls[i].family>>] >= 1
  /\ r.ret => Len(r.calls) = Len(C32_Attempted(entries))
  /\ \A key \in NetKeys : r.table[key] >= table[key]

C32_Install(fn, table) ==
  \A l \in NetLinks, entries \in EntryLists :
    \A refused_at \in 0..Len(entries) :
      CanRefuse(entries, refused_at) =>
        \A r \in {ConfigureEntries(fn, table, l, entries, 1, refused_at)} :
          C32_Holds(r, table, l, entries)

C32_Recorded ==
  (net_returned # NoEvent
     /\ net_returned.op \in {"ConfigureIPAddresses", "ConfigureRoutes"}) =>
    (net_returned.ret <=> \A call \in net_calls : ~C32_Refused(call))

C32_StopsAtFirstFailure ==
  /\ C32_Install("CreateUnicastIpAddressEntry", ip_table)
  /\ C32_Install("CreateIpForwardEntry2", route_table)
  /\ C32_Recorded

\* C32 witness: ConfigureRoutes installed the route of its first entry, was
\* refused the second and returned failure; the first route is in the table,
\* the refused one is not.
C32_Witness ==
  /\ net_returned # NoEvent
  /\ net_returned.op = "ConfigureRoutes"
  /\ ~net_returned.ret
  /\ \E c1, c2 \in net_calls :
       /\ c1.result = "NO_ERROR" /\ c2.result = "ERROR_ACCESS_DENIED"
       /\ route_table[<<c1.luid, c1.family>>] = 1
       /\ route_table[<<c2.luid, c2.family>>] = 0

\* C31: in the connect flow, the first failing step among apply-configuration,
\* address install and route install is forwarded to the caller as a failure
\* result and no later dependent step is performed; connect reports success
\* only if every one of these steps succeeded.
C31_Steps ==
  {"ApplyConfiguration", "ConfigureAdapterIPAddress", "AddRouteForAllowedIPs"}

C31_Failed(k) == flow[k].step \in C31_Steps /\ ~flow[k].ret

C31_FirstFailureForwarded ==
  (returned # NoEvent /\ returned.op = "connect" /\ flow # <<>>) =>
    /\ returned.ret <=> \A k \in 1..Len(flow) : ~C31_Failed(k)
    /\ \A k \in 1..Len(flow) : C31_Failed(k) => k = Len(flow)

\* C37: the two mappings from OS operational state to status agree on every
\* state value: for a link whose row is found, the status GetInterfaceStatus
\* derives equals ConnectionStatusFromIfOperStatus of the row's operational
\* state, rendered as a string.
C37_Query ==
  \A l \in Luids :
    (QueryInterfaceStatus(l) /\ if_table[l] # NoIfEntry) =>
      last_status'[2] =
        ConnectionStatusToString(ConnectionStatusFromIfOperStatus(if_table[l]))

C37_MappingsAgree == [][C37_Query]_vars

\* C38: after any sequence of setupTunnel calls the plugin's adapter list
\* holds at most one adapter per name: a setupTunnel for a name already in
\* the list makes no driver open/create call, adds no adapter, and only
\* (re)starts observation of the existing adapter's link id.
C38_OnePerName ==
  \A i, j \in 1..Len(adapters_) :
    adapters_[i].name = adapters_[j].name => i = j

C38_Listed(name) == \E i \in 1..Len(adapters_) : adapters_[i].name = name

C38_LuidsOf(name) ==
  {GetAdapterLuid(adapters_[i].adapter_handle_) :
     i \in {k \in 1..Len(adapters_) : adapters_[k].name = name}}

C38_Repeated ==
  \A name \in Names, answer \in SetupAnswers :
    (C38_Listed(name) /\ HandleSetupTunnel(name, answer)) =>
      /\ adapters_' = adapters_
      /\ handles_issued' = handles_issued
      /\ libraries' = libraries
      /\ \A k \in 1..Len(driver_calls') :
           driver_calls'[k].fn = "WireGuardGetAdapterLUID"
      /\ \A l \in Luids :
           (GetMonitoredAdapter(l))' /\ ~GetMonitoredAdapter(l)
             => l \in C38_LuidsOf(name)
      /\ \A l \in Luids : GetMonitoredAdapter(l) => (GetMonitoredAdapter(l))'

C38_SetupTunnelIdempotent == []C38_OnePerName /\ [][C38_Repeated]_vars

C38_Witness ==
  /\ returned # NoEvent
  /\ returned.op = "setupTunnel"
  /\ returned.ret
  /\ Len(adapters_) = 1
  /\ Len(driver_calls) = 1
  /\ driver_calls[1].fn = "WireGuardGetAdapterLUID"
  /\ GetMonitoredAdapter(GetAdapterLuid(adapters_[1].adapter_handle_))

\* C39: whenever connect reports success for an adapter, that adapter's link
\* id is in the observer's monitored set when the call returns, and whenever
\* disconnect reports success it is not, for any sequence of setupTunnel,
\* connect and disconnect calls and also when the OS subscription
\* registration fails.
C39_ConnectMonitors ==
  (returned.op = "connect" /\ returned.ret) =>
    GetMonitoredAdapter(returned.luid)

C39_DisconnectUnmonitors ==
  (returned.op = "disconnect" /\ returned.ret /\ target_adapter # 0) =>
    ~GetMonitoredAdapter(DisconnectLuid)

C39_MonitoredFollowsResult ==
  returned # NoEvent => C39_ConnectMonitors /\ C39_DisconnectUnmonitors

\* C34: at most one OS notification subscription of the observer is live
\* (registered and not yet cancelled) at any time, under any interleaving of
\* a StopObserving / StopAllObserving that has released the lock but not yet
\* completed its cancel with a concurrent StartObserving.
C34_AtMostOneSubscription == Cardinality(os_subscriptions) <= 1

\* C35: every subscription handle obtained by a successful registration is
\* passed to the OS cancel call exactly once (never twice, also when
\* StopObserving and StopAllObserving run concurrently) and none is leaked:
\* after StopAllObserving or the observer's destruction completes, no
\* registered handle remains uncancelled.
C35_Stopping == {"st_cancel", "sa_cancel"}
C35_Waiting == {"st_wait", "sa_wait"}

\* The handles a thread has taken under the lock and not yet cancelled.
C35_Taken ==
  {handle_to_cancel[t] : t \in {u \in Threads : pc[u] \in C35_Stopping}}
    \ {NullHandle}

\* Every live subscription is the observer's current one or one a stopping
\* thread is about to cancel, and no handle is held twice.
C35_Owned ==
  /\ os_subscriptions \subseteq ({interface_notification_handle_} \cup C35_Taken)
  /\ C35_Taken \subseteq os_subscriptions
  /\ interface_notification_handle_ \notin C35_Taken
  /\ \A t, u \in Threads :
       (t # u /\ handle_to_cancel[t] # NullHandle)
         => handle_to_cancel[t] # handle_to_cancel[u]
  /\ ((\A t \in Threads : pc[t] = "idle") /\ monitored_adapters_ = <<>>)
       => os_subscriptions = {}

\* The cancel call is made for a live handle and ends it; when a stop
\* operation returns, the handle it took is no longer registered.
C35_CancelStep ==
  \A t \in Threads :
    /\ (pc[t] \in C35_Stopping /\ pc'[t] \in C35_Waiting) =>
         /\ handle_to_cancel[t] \in os_subscriptions
         /\ os_subscriptions' = os_subscriptions \ {handle_to_cancel[t]}
    /\ (pc[t] \in C35_Stopping \cup C35_Waiting /\ pc'[t] = "idle") =>
         (handle_to_cancel[t] # NullHandle =>
            handle_to_cancel[t] \notin os_subscriptions')

C33_Push == delivered' # NoEvent => delivered'[1] \notin stopped

C33_NoEventAfterStop == [][C33_Push]_vars

\* C36: the sink is never invoked after it has been cleared: a callback or a
\* StartObserving that is between its "sink attached" check and its push
\* pushes to the sink object its check saw, never to a cleared or replaced
\* one, under any interleaving of the Listen / Cancel handlers.
C36_Push ==
  \A t \in Threads :
    (pc[t] \in {"cb_push", "so_push"} /\ pc'[t] = "idle") =>
      sink_seen[t] = sink_id

C36_PushUsesCheckedSink == [][C36_Push]_vars

=============================================================================
